---- MODULE Spec2Model ----
(***************************************************************************)
(* Signal Engine of Zambabet: trigger detection, signal lifecycle (gale    *)
(* ladder), cooldown / governance layer, daily statistics and the          *)
(* scheduler jobs that share the persisted engine state.                   *)
(*                                                                         *)
(* Multipliers are integers in hundredths (1.50x = 150).  Round and signal *)
(* documents are held in insertion order, so a document's _id is its       *)
(* position in the sequence.                                               *)
(*                                                                         *)
(* Wall-clock time advances in whole minutes (action Tick).  A persisted   *)
(* timestamp t is held as the number of minutes elapsed since t,           *)
(* saturating at the longest span the source ever compares it with, so     *)
(* `datetime.now() - t < D` reads `age < D`; volatility_cooldown_until is   *)
(* held as the minutes left until it.  The BRT time of day is one of the    *)
(* three spans the source distinguishes: "day" (08:00-23:00), "late"       *)
(* (23:00-24:00) and "early" (00:00-08:00).                                *)
(***************************************************************************)
EXTENDS Integers, Sequences, FiniteSets, TLC

\* ---- config.py ----------------------------------------------------------
SEQUENCE_LENGTH == 3
THRESHOLD == 200
TARGET_CASHOUT == 150
MAX_GALE == 2
COOLDOWN_ROUNDS == 3
INTERRUPTED_COOLDOWN_MINUTES == 2
PRE_SIGNAL_MIN_INTERVAL_SEC == 90
MAX_INTERRUPTS_PER_HOUR == 5
MAX_INTERRUPT_RATE_PCT == 30
KEEP_ALIVE_SILENCE_MINUTES == 5
VOLATILITY_THRESHOLD == 120
VOLATILITY_COOLDOWN_MIN_MIN == 5
VOLATILITY_COOLDOWN_MAX_MIN == 8
\* read from the environment (default "false"); the deployment studied here
\* enables it.  Disabled, is_session_closed is constantly False, which is what
\* this model does for as long as the time of day stays "day".
OPERATING_HOURS_ONLY == TRUE

\* signal_engine.py status values
STATUS_ACTIVE == "active"
STATUS_WON == "won"
STATUS_GALE1 == "gale1"
STATUS_GALE2 == "gale2"
STATUS_LOST == "lost"

\* ---- bounds of the model -------------------------------------------------
MaxRounds == 4        \* rounds delivered under Spec
MaxTicks == 1         \* clock advances in one behaviour
MaxRoundsCooldown == 10 \* rounds in the store under SpecCooldown
MaxRoundsStale == 7   \* rounds delivered under SpecStale
MaxRoundsResolve == 8 \* rounds in the store under SpecResolve
MaxRoundsTrigger == 4 \* rounds delivered under SpecTrigger
MaxStreakWins == 52   \* wins of the longest streak under SpecStreak
MaxShortWins == 16    \* wins during which the stream may leave the winning cycle
MaxOffCycle == 3      \* rounds delivered after it has left the cycle
MaxRoundsVolatility == 5 \* rounds delivered under SpecVolatility
MaxTicksVolatility == 3  \* clock advances under SpecVolatility
MaxRoundsInterrupt == 7  \* rounds in the store under SpecInterrupt
MaxRoundsRace == 5       \* rounds in the store under SpecRace
MaxRoundsTickRace == 5   \* rounds in the store under SpecTickRace
MaxRoundsDelivery == 6   \* rounds in the store under SpecDelivery
MaxTicksDelivery == 1    \* clock advances under SpecDelivery
MaxRoundsMissing == 6    \* rounds in the store under SpecMissing
MaxRoundsFault == 7      \* rounds in the store under SpecFault
MaxTicksFault == 1       \* clock advances under SpecFault
MaxRoundsRedeliver == 5  \* rounds in the store under SpecRedeliver
MaxRoundsMidnight == 10  \* rounds in the store under SpecMidnight
MaxTicksMidnight == 2    \* clock advances under SpecMidnight
MaxRoundsCancel == 8     \* rounds in the store under SpecCancel
MaxTicksCancel == 2      \* clock advances under SpecCancel
MaxRoundsPayouts == 4    \* rounds in the store under SpecPayouts
MaxRoundsLosses == 21    \* rounds in the store under SpecLosses

\* Multipliers the round stream may carry: below the volatility threshold,
\* between target and threshold, exactly the threshold, above it.
Mults == {110, 180, 200, 250}

\* Lengths of a clock advance: under every timer, and just long enough to run
\* out the interrupted cooldown, the keep-alive silence, the longest volatility
\* cooldown.
TickMinutes == {1, INTERRUPTED_COOLDOWN_MINUTES, KEEP_ALIVE_SILENCE_MINUTES,
                VOLATILITY_COOLDOWN_MAX_MIN}

\* Python None / an absent document field (ids, counts and ages are >= 0).
NONE == -1
\* The message reference Telegram returns for a delivered message.
MSG_REF == 1

VARIABLES
    rounds,                  \* rounds collection: multiplier of round _id = index
    signals,                 \* signals collection: document of signal _id = index
    daily_stats,             \* daily_stats collection: day -> row
    engine_state,            \* engine_state document {"_id": "state"}
    current_streak,          \* module global _current_streak
    last_streak_celebration, \* module global _last_streak_celebration
    today,                   \* BRT calendar day
    tod,                     \* BRT time of day: "day", "late", "early"
    ticks,                   \* number of clock advances so far
    pre_signal_round,        \* _id of the round on which the last pre-signal went out
    cancelled_at,            \* minutes since a cancellation notice or retraction went out
    keep_alives,             \* variants of the last two keep-alive messages delivered
    payout_list,             \* log_monitor: the payout list handed to process_payout_list last
    previous_payout_list,    \* log_monitor: the list kept between polls, <<>> for None
    celebrated,              \* streak values announced since the last loss
    inflight,                \* invocations in progress: slot -> position and locals
    journal,                 \* the field writes and interrupt events issued so far
                             \* (kept by the statement-level specifications)
    sent                     \* messages handed to Telegram by the last operation

vars == <<rounds, signals, daily_stats, engine_state, current_streak,
          last_streak_celebration, today, tod, ticks, pre_signal_round,
          cancelled_at, keep_alives, payout_list, previous_payout_list,
          celebrated, inflight, journal, sent>>

Min(a, b) == IF a < b THEN a ELSE b
Max(a, b) == IF a > b THEN a ELSE b

\* a calendar day ends only by a clock advance that crosses midnight
Days == 1..(MaxTicks + 1)

EmptyRow == [present |-> FALSE, wins |-> 0, losses |-> 0, signals_sent |-> 0,
             today_wins |-> 0, today_losses |-> 0]

EmptyState ==
    [session_closed |-> "unset",
     cooldown_until_round_id |-> NONE,
     volatility_cooldown_until |-> NONE,
     volatility_cooldown_started_at |-> NONE,
     volatility_cooldown_duration_min |-> NONE,
     volatility_cooldown_midpoint_sent |-> FALSE,
     last_message_at |-> NONE,
     last_keep_alive_variant |-> NONE,
     pre_signal_sent |-> FALSE,
     last_pre_signal_at |-> NONE,
     last_pre_signal_message_id |-> NONE,
     last_signal_interrupted_at |-> NONE,
     interrupt_stats |-> [hour_key |-> "none", interrupts |-> 0, confirmed |-> 0],
     consecutive_wins |-> NONE]

\* A "world" is what one engine operation reads and writes: the three
\* collections it owns, the two module globals and the messages it emits.
World == [sig |-> signals, ds |-> daily_stats, st |-> engine_state,
          cs |-> current_streak, lc |-> last_streak_celebration, sent |-> <<>>]

\* ---- telegram_service.py ---------------------------------------------------
\* send_message(text): `arg` holds the values the template is filled with.
\* On success the registered callback record_message_sent stamps
\* last_message_at; on failure (or Telegram disabled) nothing is written.
Send(w, kind, arg, ok) ==
    [w EXCEPT !.sent = Append(@, [kind |-> kind, arg |-> arg]),
              !.st.last_message_at = IF ok THEN 0 ELSE @]

MsgId(ok) == IF ok THEN MSG_REF ELSE NONE

\* on_new_round calls three telegram_service functions whose definitions are
\* not among the sources: send_pre_signal_analyzing, send_signal_cancelled and
\* delete_message.  They are taken as the specification describes them: two
\* notifications sent like every other template (through send_message, the
\* message id returned), and the removal of a message already sent.
SendPreSignalAnalyzing(w, ok) == Send(w, "pre_signal", <<>>, ok)

SendSignalCancelled(w, ok) == Send(w, "signal_cancelled", <<>>, ok)

DeleteMessage(w) == [w EXCEPT !.sent = Append(@, [kind |-> "delete", arg |-> <<>>])]

\* ---- signal_engine.py: queries ----------------------------------------------
GetRecentRounds(rnds, n) ==
    [i \in 1..Min(n, Len(rnds)) |->
        [id |-> Len(rnds) - i + 1, multiplier |-> rnds[Len(rnds) - i + 1]]]

IsNonTerminal(s) == s.status \in {STATUS_ACTIVE, STATUS_GALE1, STATUS_GALE2}

\* get_active_signal whose filter leaves the status out: the newest signal
GetActiveSignalAnyStatus(sigs) ==
    IF Len(sigs) > 0 THEN Len(sigs) ELSE NONE

\* _id of the active signal, NONE when there is none
GetActiveSignal(sigs) ==
    IF \E i \in 1..Len(sigs) : IsNonTerminal(sigs[i])
    THEN CHOOSE i \in 1..Len(sigs) : IsNonTerminal(sigs[i])
    ELSE NONE

ActiveSignalExists(sigs) == GetActiveSignal(sigs) /= NONE

IsSessionClosed(st, oho, t) ==
    IF ~oho THEN FALSE
    ELSE IF st.session_closed = "false" THEN FALSE
    ELSE t \in {"late", "early"}

IsInVolatilityCooldown(st) ==
    IF st.volatility_cooldown_until = NONE THEN FALSE
    ELSE st.volatility_cooldown_until > 0

\* r.get("multiplier", dflt)
MultOr(r, dflt) == IF r.multiplier = NONE THEN dflt ELSE r.multiplier

CheckVolatilityTrigger(recent) ==
    IF Len(recent) < 3 THEN FALSE
    ELSE \A i \in 1..3 : MultOr(recent[i], 999) < VOLATILITY_THRESHOLD

RECURSIVE CountUnder(_, _)
CountUnder(recent, i) ==
    IF i > Len(recent) THEN 0
    ELSE IF MultOr(recent[i], 999) < THRESHOLD THEN 1 + CountUnder(recent, i + 1)
    ELSE 0

ConsecutiveUnderThreshold(recent) == CountUnder(recent, 1)

PreSignalSentForRun(st) == st.pre_signal_sent = TRUE

\* in_cooldown comparing with <= cooldown_until_round_id
InCooldownInclusive(st, rnds) ==
    IF st.cooldown_until_round_id = NONE THEN FALSE
    ELSE IF Len(rnds) = 0 THEN TRUE
    ELSE Len(rnds) <= st.cooldown_until_round_id

InCooldown(st, rnds) ==
    IF st.cooldown_until_round_id = NONE THEN FALSE
    ELSE IF Len(rnds) = 0 THEN TRUE
    ELSE Len(rnds) < st.cooldown_until_round_id

IsInInterruptedCooldown(st) ==
    IF st.last_signal_interrupted_at = NONE THEN FALSE
    ELSE st.last_signal_interrupted_at < INTERRUPTED_COOLDOWN_MINUTES

\* ---- signal_engine.py: pre-signal and interrupt governance -----------------
SetPreSignalSent(w, value) == [w EXCEPT !.st.pre_signal_sent = value]

ClearPreSignalState(w) ==
    [w EXCEPT !.st.pre_signal_sent = FALSE,
              !.st.last_pre_signal_message_id = NONE]

\* The stored bucket counts only while its hour_key is the current hour.
GetInterruptStats(st) ==
    IF st.interrupt_stats.hour_key /= "current"
    THEN [hour_key |-> "current", interrupts |-> 0, confirmed |-> 0]
    ELSE st.interrupt_stats

ShouldPostInterruptedSignal(st) ==
    LET stats == GetInterruptStats(st)
        interrupts == stats.interrupts
        confirmed == stats.confirmed
        total == interrupts + confirmed
    IN  IF interrupts >= MAX_INTERRUPTS_PER_HOUR THEN FALSE
        ELSE IF total = 0 THEN TRUE
        ELSE IF 100 * interrupts >= MAX_INTERRUPT_RATE_PCT * total THEN FALSE
        ELSE TRUE

RecordInterruptEvent(w, kind) ==
    LET stats == GetInterruptStats(w.st)
        stats2 == IF kind = "interrupted"
                  THEN [stats EXCEPT !.interrupts = @ + 1]
                  ELSE IF kind = "confirmed"
                  THEN [stats EXCEPT !.confirmed = @ + 1]
                  ELSE stats
    IN  [w EXCEPT !.st.interrupt_stats = stats2,
                  !.st.last_signal_interrupted_at =
                      IF kind = "interrupted" THEN 0 ELSE @]

\* check_trigger looking at one round fewer than SEQUENCE_LENGTH
CheckTriggerShort(w, rnds, recent, oho, t) ==
    IF ActiveSignalExists(w.sig) THEN FALSE
    ELSE IF InCooldown(w.st, rnds) THEN FALSE
    ELSE IF IsInVolatilityCooldown(w.st) THEN FALSE
    ELSE IF IsSessionClosed(w.st, oho, t) THEN FALSE
    ELSE IF Len(recent) < SEQUENCE_LENGTH - 1 THEN FALSE
    ELSE \A i \in 1..(SEQUENCE_LENGTH - 1) : MultOr(recent[i], 0) < THRESHOLD

\* check_trigger comparing with <= THRESHOLD
CheckTriggerInclusive(w, rnds, recent, oho, t) ==
    IF ActiveSignalExists(w.sig) THEN FALSE
    ELSE IF InCooldown(w.st, rnds) THEN FALSE
    ELSE IF IsInVolatilityCooldown(w.st) THEN FALSE
    ELSE IF IsSessionClosed(w.st, oho, t) THEN FALSE
    ELSE IF Len(recent) < SEQUENCE_LENGTH THEN FALSE
    ELSE \A i \in 1..SEQUENCE_LENGTH : MultOr(recent[i], 0) <= THRESHOLD

CheckTrigger(w, rnds, recent, oho, t) ==
    IF ActiveSignalExists(w.sig) THEN FALSE
    ELSE IF InCooldown(w.st, rnds) THEN FALSE
    ELSE IF IsInVolatilityCooldown(w.st) THEN FALSE
    ELSE IF IsSessionClosed(w.st, oho, t) THEN FALSE
    ELSE IF Len(recent) < SEQUENCE_LENGTH THEN FALSE
    ELSE \A i \in 1..SEQUENCE_LENGTH : MultOr(recent[i], 0) < THRESHOLD

\* Result of get_pattern_monitoring_data: some = FALSE stands for None.
NoMonitoring == [some |-> FALSE, count |-> 0, remaining |-> 0]

RECURSIVE CountUnderOr0(_, _)
CountUnderOr0(recent, i) ==
    IF i > Len(recent) THEN 0
    ELSE IF MultOr(recent[i], 0) < THRESHOLD THEN 1 + CountUnderOr0(recent, i + 1)
    ELSE 0

\* get_pattern_monitoring_data reporting from SEQUENCE_LENGTH - 1 rounds on
GetPatternMonitoringDataEarly(sigs, st, rnds) ==
    IF ActiveSignalExists(sigs) THEN NoMonitoring
    ELSE IF InCooldown(st, rnds) THEN NoMonitoring
    ELSE IF IsInVolatilityCooldown(st) THEN NoMonitoring
    ELSE LET recent == GetRecentRounds(rnds, 10)
             count == CountUnderOr0(recent, 1)
         IN  IF Len(recent) < 3 THEN NoMonitoring
             ELSE IF count < SEQUENCE_LENGTH - 1 THEN NoMonitoring
             ELSE [some |-> TRUE, count |-> count,
                   remaining |-> Max(0, SEQUENCE_LENGTH - count)]

GetPatternMonitoringData(sigs, st, rnds) ==
    IF ActiveSignalExists(sigs) THEN NoMonitoring
    ELSE IF InCooldown(st, rnds) THEN NoMonitoring
    ELSE IF IsInVolatilityCooldown(st) THEN NoMonitoring
    ELSE LET recent == GetRecentRounds(rnds, 10)
             count == CountUnderOr0(recent, 1)
         IN  IF Len(recent) < 3 THEN NoMonitoring
             ELSE IF count < 3 THEN NoMonitoring
             ELSE [some |-> TRUE, count |-> count,
                   remaining |-> Max(0, SEQUENCE_LENGTH - count)]

\* ---- signal_engine.py: volatility cooldown -----------------------------------
\* _enter_volatility_cooldown leaving volatility_cooldown_midpoint_sent as it is
EnterVolatilityCooldownKeepFlag(w, duration_min, ok) ==
    LET w1 == [w EXCEPT !.st.volatility_cooldown_until = duration_min,
                        !.st.volatility_cooldown_started_at = 0,
                        !.st.volatility_cooldown_duration_min = duration_min]
    IN  Send(w1, "cooldown_mode", <<>>, ok)

EnterVolatilityCooldown(w, duration_min, ok) ==
    LET w1 == [w EXCEPT !.st.volatility_cooldown_until = duration_min,
                        !.st.volatility_cooldown_started_at = 0,
                        !.st.volatility_cooldown_duration_min = duration_min,
                        !.st.volatility_cooldown_midpoint_sent = FALSE]
    IN  Send(w1, "cooldown_mode", <<>>, ok)

\* check_volatility_cooldown_midpoint not reading volatility_cooldown_midpoint_sent
CheckVolatilityCooldownMidpointAgain(w, variant, ok) ==
    LET st == w.st IN
    IF \/ st.volatility_cooldown_until = NONE
       \/ st.volatility_cooldown_started_at = NONE
    THEN w
    ELSE IF 2 * st.volatility_cooldown_started_at >= st.volatility_cooldown_duration_min
    THEN [Send(w, "keep_alive", <<variant>>, ok)
              EXCEPT !.st.volatility_cooldown_midpoint_sent = TRUE]
    ELSE w

\* now >= started + duration/2 minutes, in half minutes
CheckVolatilityCooldownMidpoint(w, variant, ok) ==
    LET st == w.st IN
    IF \/ st.volatility_cooldown_until = NONE
       \/ st.volatility_cooldown_started_at = NONE
       \/ st.volatility_cooldown_midpoint_sent
    THEN w
    ELSE IF 2 * st.volatility_cooldown_started_at >= st.volatility_cooldown_duration_min
    THEN [Send(w, "keep_alive", <<variant>>, ok)
              EXCEPT !.st.volatility_cooldown_midpoint_sent = TRUE]
    ELSE w

\* ---- signal_engine.py: daily statistics --------------------------------------
EnsureDailyStats(w, d) ==
    IF w.ds[d].present THEN w
    ELSE [w EXCEPT !.ds[d] = [EmptyRow EXCEPT !.present = TRUE]]

\* increment_daily_wins bumping the today_wins rollup instead of wins
IncrementDailyWinsRollup(w, d) ==
    LET w1 == EnsureDailyStats(w, d)
    IN  [w1 EXCEPT !.ds[d].today_wins = @ + 1]

IncrementDailyWins(w, d) ==
    LET w1 == EnsureDailyStats(w, d)
    IN  [w1 EXCEPT !.ds[d].wins = @ + 1]

\* increment_daily_losses leaving today_wins as it was
IncrementDailyLossesKeepWins(w, d) ==
    LET w1 == EnsureDailyStats(w, d)
    IN  [w1 EXCEPT !.ds[d].present = TRUE,
                   !.ds[d].losses = @ + 1,
                   !.ds[d].today_losses = @ + 1]

IncrementDailyLosses(w, d) ==
    LET w1 == EnsureDailyStats(w, d)
        stats_doc == w1.ds[d]
        current_signals == stats_doc.signals_sent
        new_today_losses == stats_doc.today_losses + 1
        today_wins_value == current_signals - new_today_losses
    IN  [w1 EXCEPT !.ds[d].present = TRUE,
                   !.ds[d].losses = @ + 1,
                   !.ds[d].today_losses = @ + 1,
                   !.ds[d].today_wins = Max(0, today_wins_value)]

ResetDailyStatsAfterTwoLosses(w, d) ==
    [w EXCEPT !.ds[d].present = TRUE, !.ds[d].wins = 0, !.ds[d].losses = 1]

GetTodayStats(w, d) == [wins |-> w.ds[d].wins, losses |-> w.ds[d].losses]

\* start_cooldown counting rounds_count rounds after the round that follows
StartCooldownAfterNext(w, rounds_count, result_round_id) ==
    IF result_round_id = NONE THEN w
    ELSE [w EXCEPT !.st.cooldown_until_round_id = result_round_id + rounds_count + 1]

StartCooldown(w, rounds_count, result_round_id) ==
    IF result_round_id = NONE THEN w
    ELSE [w EXCEPT !.st.cooldown_until_round_id = result_round_id + rounds_count]

\* ---- signal_engine.py: signal documents ----------------------------------------
NextSignalId(sigs) == IF Len(sigs) = 0 THEN 1 ELSE sigs[Len(sigs)].id + 1

CreateSignal(w, rnds, trigger_round_id, target, d, ok) ==
    LET w1 == EnsureDailyStats(w, d)
        sig_id == NextSignalId(w1.sig)
        doc == [id |-> sig_id,
                trigger_round_id |-> trigger_round_id,
                target |-> target,
                status |-> STATUS_ACTIVE,
                result_round_id |-> NONE,
                result_multiplier |-> NONE,
                gale_depth |-> 0,
                created_at |-> d,
                resolved_at |-> NONE,
                telegram_message_id |-> NONE]
        w2 == [w1 EXCEPT !.sig = Append(@, doc)]
        stats_doc == w2.ds[d]
        new_signals_sent == stats_doc.signals_sent + 1
        today_wins_value == Max(0, new_signals_sent - stats_doc.today_losses)
        w3 == [w2 EXCEPT !.ds[d].present = TRUE,
                         !.ds[d].signals_sent = @ + 1,
                         !.ds[d].today_wins = today_wins_value]
        w4 == Send(w3, "signal", <<>>, ok)
        w5 == RecordInterruptEvent(w4, "confirmed")
    IN  IF MsgId(ok) /= NONE
        THEN [w5 EXCEPT !.sig[sig_id].telegram_message_id = MsgId(ok)]
        ELSE w5

MarkWon(w, sid, round_data) ==
    [w EXCEPT !.sig[sid].status = STATUS_WON,
              !.sig[sid].result_round_id = round_data.id,
              !.sig[sid].result_multiplier = round_data.multiplier,
              !.sig[sid].resolved_at = round_data.id]

MarkLost(w, sid, round_data) ==
    [w EXCEPT !.sig[sid].status = STATUS_LOST,
              !.sig[sid].result_round_id = round_data.id,
              !.sig[sid].result_multiplier = round_data.multiplier,
              !.sig[sid].resolved_at = round_data.id]

\* update_signal_gale whose update_one matches no document and upserts one
UpdateSignalGaleUpsert(w, sid, new_depth) ==
    [w EXCEPT !.sig = Append(@,
        [w.sig[sid] EXCEPT !.id = NextSignalId(w.sig),
                           !.status = IF new_depth = 1 THEN STATUS_GALE1 ELSE STATUS_GALE2,
                           !.gale_depth = new_depth])]

\* update_signal_gale writing the status and leaving gale_depth as it was
UpdateSignalGaleStatusOnly(w, sid, new_depth) ==
    [w EXCEPT !.sig[sid].status = IF new_depth = 1 THEN STATUS_GALE1 ELSE STATUS_GALE2]

UpdateSignalGale(w, sid, new_depth) ==
    [w EXCEPT !.sig[sid].status = IF new_depth = 1 THEN STATUS_GALE1 ELSE STATUS_GALE2,
              !.sig[sid].gale_depth = new_depth]

\* ---- signal_engine.py: streak and result messages ------------------------------
STREAK_MILESTONES_BASE == {3, 5, 7, 10}
DB_STREAK_SCAN_LIMIT == 50

\* _is_streak_milestone knowing only the multiples of five
IsStreakMilestoneFives(count) == count >= 5 /\ count % 5 = 0

IsStreakMilestone(count) ==
    \/ count \in STREAK_MILESTONES_BASE
    \/ (count >= 15 /\ count % 5 = 0)

PersistConsecutiveWins(w, count) == [w EXCEPT !.st.consecutive_wins = count]

\* Resolved signals newest resolved_at first, at most `limit` of them, counted
\* until the first one that is not won.
RECURSIVE CountWonNewestFirst(_, _, _)
CountWonNewestFirst(sigs, S, limit) ==
    IF S = {} \/ limit = 0 THEN 0
    ELSE LET i == CHOOSE x \in S : \A y \in S : sigs[y].resolved_at <= sigs[x].resolved_at
         IN  IF sigs[i].status = STATUS_WON
             THEN 1 + CountWonNewestFirst(sigs, S \ {i}, limit - 1)
             ELSE 0

GetConsecutiveWinsFromDb(sigs) ==
    CountWonNewestFirst(sigs,
        {i \in 1..Len(sigs) : sigs[i].status \in {STATUS_WON, STATUS_LOST}},
        DB_STREAK_SCAN_LIMIT)

CheckStreakCelebration(w, ok) ==
    IF IsStreakMilestone(w.cs) /\ w.cs > w.lc
    THEN [Send(w, "streak_celebration", <<w.cs>>, ok) EXCEPT !.lc = w.cs]
    ELSE w

\* send_win_message and send_recovery_message differ only in the template.
\* The message carries today_wins and today_losses as _get_today_stats reads
\* them at that moment.
SendWonMessage(w, kind, d, ok) ==
    LET streak == IF w.cs = 0 THEN GetConsecutiveWinsFromDb(w.sig) ELSE w.cs + 1
        w1 == PersistConsecutiveWins([w EXCEPT !.cs = streak], streak)
        stats == GetTodayStats(w1, d)
        w2 == Send(w1, kind, <<stats.wins, stats.losses>>, ok)
    IN  CheckStreakCelebration(w2, ok)

SendWinMessage(w, d, ok) == SendWonMessage(w, "win", d, ok)

SendRecoveryMessage(w, d, ok) == SendWonMessage(w, "recovery", d, ok)

\* send_gale_message ending the persisted streak as a loss does
SendGaleMessageEndStreak(w, new_depth, ok) ==
    IF new_depth \in {1, 2}
    THEN PersistConsecutiveWins(Send(w, "gale", <<new_depth>>, ok), 0)
    ELSE w

SendGaleMessage(w, new_depth, ok) ==
    IF new_depth \in {1, 2} THEN Send(w, "gale", <<new_depth>>, ok) ELSE w

SendLossMessage(w, d, ok) ==
    LET w1 == PersistConsecutiveWins([w EXCEPT !.cs = 0, !.lc = 0], 0)
        stats == GetTodayStats(w1, d)
        w2 == Send(w1, "loss", <<stats.wins, stats.losses>>, ok)
    IN  IF stats.losses = 2 THEN ResetDailyStatsAfterTwoLosses(w2, d) ELSE w2

\* resolve_signal winning only strictly above the target
ResolveSignalStrict(w, sid, round_data, d, ok) ==
    LET signal == w.sig[sid]
        multiplier == round_data.multiplier
        target == signal.target
    IN  IF multiplier = NONE \/ target = NONE THEN w
        ELSE IF multiplier > target
        THEN LET w1 == IncrementDailyWins(MarkWon(w, sid, round_data), d)
             IN  IF signal.gale_depth = 0
                 THEN SendWinMessage(w1, d, ok)
                 ELSE SendRecoveryMessage(w1, d, ok)
        ELSE IF signal.gale_depth < MAX_GALE
        THEN LET new_depth == signal.gale_depth + 1
             IN  SendGaleMessage(UpdateSignalGale(w, sid, new_depth), new_depth, ok)
        ELSE LET w1 == IncrementDailyLosses(MarkLost(w, sid, round_data), d)
                 w2 == SendLossMessage(w1, d, ok)
             IN  StartCooldown(w2, COOLDOWN_ROUNDS, round_data.id)

\* `signal` is the document read by get_active_signal before any update.
\* resolve_signal dispatching the result message before it counts the result
ResolveSignalSendFirst(w, sid, round_data, d, ok) ==
    LET signal == w.sig[sid]
        multiplier == round_data.multiplier
        target == signal.target
    IN  IF multiplier = NONE \/ target = NONE THEN w
        ELSE IF multiplier >= target
        THEN LET w1 == MarkWon(w, sid, round_data)
             IN  IncrementDailyWins(IF signal.gale_depth = 0
                                    THEN SendWinMessage(w1, d, ok)
                                    ELSE SendRecoveryMessage(w1, d, ok), d)
        ELSE IF signal.gale_depth < MAX_GALE
        THEN LET new_depth == signal.gale_depth + 1
             IN  SendGaleMessage(UpdateSignalGale(w, sid, new_depth), new_depth, ok)
        ELSE LET w1 == SendLossMessage(MarkLost(w, sid, round_data), d, ok)
             IN  StartCooldown(IncrementDailyLosses(w1, d), COOLDOWN_ROUNDS, round_data.id)

ResolveSignal(w, sid, round_data, d, ok) ==
    LET signal == w.sig[sid]
        multiplier == round_data.multiplier
        target == signal.target
    IN  IF multiplier = NONE \/ target = NONE THEN w
        ELSE IF multiplier >= target
        THEN LET w1 == IncrementDailyWins(MarkWon(w, sid, round_data), d)
             IN  IF signal.gale_depth = 0
                 THEN SendWinMessage(w1, d, ok)
                 ELSE SendRecoveryMessage(w1, d, ok)
        ELSE IF signal.gale_depth < MAX_GALE
        THEN LET new_depth == signal.gale_depth + 1
             IN  SendGaleMessage(UpdateSignalGale(w, sid, new_depth), new_depth, ok)
        ELSE LET w1 == IncrementDailyLosses(MarkLost(w, sid, round_data), d)
                 w2 == SendLossMessage(w1, d, ok)
             IN  StartCooldown(w2, COOLDOWN_ROUNDS, round_data.id)

\* ---- signal_engine.py: on_new_round -------------------------------------------
\* The interrupted-run branch (pattern broke after a pre-signal).
\* the branch leaving the pre-signal flag and reference in place
InterruptRunKeepState(w, ok) ==
    LET pre_msg_id == w.st.last_pre_signal_message_id
    IN  IF ShouldPostInterruptedSignal(w.st)
        THEN RecordInterruptEvent(SendSignalCancelled(w, ok), "interrupted")
        ELSE IF pre_msg_id /= NONE THEN DeleteMessage(w) ELSE w

InterruptRun(w, ok) ==
    LET pre_msg_id == w.st.last_pre_signal_message_id
        w1 == IF ShouldPostInterruptedSignal(w.st)
              THEN RecordInterruptEvent(SendSignalCancelled(w, ok), "interrupted")
              ELSE IF pre_msg_id /= NONE THEN DeleteMessage(w) ELSE w
    IN  ClearPreSignalState(w1)

\* the pre-signal branch marking the run only when the notification went out
PreSignalIfDelivered(w, ok) ==
    LET last_pre == w.st.last_pre_signal_at IN
    IF IsInInterruptedCooldown(w.st) THEN w
    ELSE IF last_pre /= NONE /\ last_pre * 60 < PRE_SIGNAL_MIN_INTERVAL_SEC THEN w
    ELSE LET w1 == SetPreSignalSent(SendPreSignalAnalyzing(w, ok), MsgId(ok) /= NONE)
         IN  [w1 EXCEPT !.st.last_pre_signal_at = 0,
                        !.st.last_pre_signal_message_id =
                            IF MsgId(ok) /= NONE THEN MsgId(ok) ELSE @]

\* The one-round-before-trigger branch: send the pre-signal unless throttled.
PreSignal(w, ok) ==
    LET last_pre == w.st.last_pre_signal_at IN
    IF IsInInterruptedCooldown(w.st) THEN w
    ELSE IF last_pre /= NONE /\ last_pre * 60 < PRE_SIGNAL_MIN_INTERVAL_SEC THEN w
    ELSE LET w1 == SetPreSignalSent(SendPreSignalAnalyzing(w, ok), TRUE)
         IN  [w1 EXCEPT !.st.last_pre_signal_at = 0,
                        !.st.last_pre_signal_message_id =
                            IF MsgId(ok) /= NONE THEN MsgId(ok) ELSE @]

\* on_new_round whose trigger branch, finding no pre-signal sent for the run,
\* sends it then
OnNewRoundIdleRetry(w, rnds, round_data, d, t, oho, duration_min, ok) ==
    LET recent == GetRecentRounds(rnds, 8)
    IN  IF CheckVolatilityTrigger(recent) /\ ~IsInVolatilityCooldown(w.st)
        THEN EnterVolatilityCooldown(w, duration_min, ok)
        ELSE IF IsInVolatilityCooldown(w.st) THEN w
        ELSE IF InCooldown(w.st, rnds) \/ IsSessionClosed(w.st, oho, t) THEN w
        ELSE LET consecutive == ConsecutiveUnderThreshold(recent)
                 current_mult_val == IF round_data.multiplier = NONE THEN 0
                                     ELSE round_data.multiplier
             IN  IF /\ PreSignalSentForRun(w.st)
                    /\ current_mult_val > THRESHOLD
                    /\ consecutive < SEQUENCE_LENGTH
                 THEN InterruptRun(w, ok)
                 ELSE IF CheckTrigger(w, rnds, recent, oho, t)
                 THEN IF ~PreSignalSentForRun(w.st) THEN PreSignal(w, ok)
                      ELSE CreateSignal(ClearPreSignalState(w), rnds,
                                        recent[1].id, TARGET_CASHOUT, d, ok)
                 ELSE IF consecutive = 2 /\ ~PreSignalSentForRun(w.st)
                 THEN PreSignal(w, ok)
                 ELSE IF consecutive < 2
                 THEN ClearPreSignalState(w)
                 ELSE w

\* on_new_round past the active-signal branch: the volatility trigger, the
\* gates, then the interrupted / trigger / pre-signal / reset branches.
OnNewRoundIdle(w, rnds, round_data, d, t, oho, duration_min, ok) ==
    LET recent == GetRecentRounds(rnds, 8)
    IN  IF CheckVolatilityTrigger(recent) /\ ~IsInVolatilityCooldown(w.st)
        THEN EnterVolatilityCooldown(w, duration_min, ok)
        ELSE IF IsInVolatilityCooldown(w.st) THEN w
        ELSE IF InCooldown(w.st, rnds) \/ IsSessionClosed(w.st, oho, t) THEN w
        ELSE LET consecutive == ConsecutiveUnderThreshold(recent)
                 current_mult_val == IF round_data.multiplier = NONE THEN 0
                                     ELSE round_data.multiplier
             IN  IF /\ PreSignalSentForRun(w.st)
                    /\ current_mult_val > THRESHOLD
                    /\ consecutive < SEQUENCE_LENGTH
                 THEN InterruptRun(w, ok)
                 ELSE IF CheckTrigger(w, rnds, recent, oho, t)
                 THEN IF ~PreSignalSentForRun(w.st) THEN w
                      ELSE CreateSignal(ClearPreSignalState(w), rnds,
                                        recent[1].id, TARGET_CASHOUT, d, ok)
                 ELSE IF consecutive = 2 /\ ~PreSignalSentForRun(w.st)
                 THEN PreSignal(w, ok)
                 ELSE IF consecutive < 2
                 THEN ClearPreSignalState(w)
                 ELSE w

\* on_new_round with the cooldown and session gates tested ahead of the
\* active-signal branch
OnNewRoundGatesFirst(w, rnds, round_data, d, t, oho, duration_min, ok) ==
    LET active == GetActiveSignal(w.sig)
    IN  IF InCooldown(w.st, rnds) \/ IsSessionClosed(w.st, oho, t) THEN w
        ELSE IF active /= NONE THEN ResolveSignal(w, active, round_data, d, ok)
        ELSE OnNewRoundIdle(w, rnds, round_data, d, t, oho, duration_min, ok)

\* on_new_round going on to resolve_signal with the signal it has just created
OnNewRoundResolveCreated(w, rnds, round_data, d, t, oho, duration_min, ok) ==
    LET active == GetActiveSignal(w.sig)
        w1 == OnNewRoundIdle(w, rnds, round_data, d, t, oho, duration_min, ok)
        created == GetActiveSignal(w1.sig)
    IN  IF active /= NONE THEN ResolveSignal(w, active, round_data, d, ok)
        ELSE IF created /= NONE THEN ResolveSignal(w1, created, round_data, d, ok)
        ELSE w1

OnNewRound(w, rnds, round_data, d, t, oho, duration_min, ok) ==
    LET active == GetActiveSignal(w.sig)
    IN  IF active /= NONE THEN ResolveSignal(w, active, round_data, d, ok)
        ELSE OnNewRoundIdle(w, rnds, round_data, d, t, oho, duration_min, ok)

\* ---- signal_engine.py / scheduler.py: timer-driven operations ------------------
\* check_and_send_keep_alive without the volatility-cooldown gate
CheckAndSendKeepAliveUngated(w, rnds, variant, ok) ==
    LET w1 == CheckVolatilityCooldownMidpoint(w, variant, ok)
        st == w1.st
    IN  IF InCooldown(st, rnds) THEN w1
        ELSE IF IsInInterruptedCooldown(st) THEN w1
        ELSE IF ActiveSignalExists(w1.sig) THEN w1
        ELSE IF st.last_message_at = NONE THEN w1
        ELSE IF st.last_message_at < KEEP_ALIVE_SILENCE_MINUTES THEN w1
        ELSE LET next_variant == (st.last_keep_alive_variant + 1) % 3
             IN  [Send(w1, "keep_alive", <<next_variant>>, ok)
                     EXCEPT !.st.last_message_at = 0,
                            !.st.last_keep_alive_variant = next_variant]

CheckAndSendKeepAlive(w, rnds, variant, ok) ==
    LET w1 == CheckVolatilityCooldownMidpoint(w, variant, ok)
        st == w1.st
    IN  IF IsInVolatilityCooldown(st) THEN w1
        ELSE IF InCooldown(st, rnds) THEN w1
        ELSE IF IsInInterruptedCooldown(st) THEN w1
        ELSE IF ActiveSignalExists(w1.sig) THEN w1
        ELSE IF st.last_message_at = NONE THEN w1
        ELSE IF st.last_message_at < KEEP_ALIVE_SILENCE_MINUTES THEN w1
        ELSE LET next_variant == (st.last_keep_alive_variant + 1) % 3
             IN  [Send(w1, "keep_alive", <<next_variant>>, ok)
                     EXCEPT !.st.last_message_at = 0,
                            !.st.last_keep_alive_variant = next_variant]

JobPatternMonitoringW(w, rnds, ok) ==
    LET data == GetPatternMonitoringData(w.sig, w.st, rnds)
    IN  IF data.some THEN Send(w, "pattern_monitoring", <<data.count, data.remaining>>, ok) ELSE w

ClearSessionClosed(w) == [w EXCEPT !.st.session_closed = "false"]

JobDailyOpenerW(w, ok) == Send(ClearSessionClosed(w), "daily_opener", <<>>, ok)

\* _job_daily_close closing the session as well
JobDailyCloseClosing(w, ok) ==
    Send([w EXCEPT !.st.session_closed = "true"], "daily_close", <<>>, ok)

JobDailyCloseW(w, ok) == Send(w, "daily_close", <<>>, ok)

\* ---- the passage of time ------------------------------------------------------
Older(age, cap, minutes) == IF age = NONE THEN NONE ELSE Min(cap, age + minutes)

NextTod(t) == IF t = "day" THEN "late" ELSE IF t = "late" THEN "early" ELSE "day"

\* `minutes` minutes pass.  boundary tells whether they cross nothing, a full
\* hour, or a full hour at which the BRT time of day enters its next span.
AdvanceClock(st, minutes, boundary) ==
    [st EXCEPT
        !.volatility_cooldown_until = IF @ = NONE THEN NONE ELSE Max(0, @ - minutes),
        !.volatility_cooldown_started_at = Older(@, VOLATILITY_COOLDOWN_MAX_MIN, minutes),
        !.last_message_at = Older(@, KEEP_ALIVE_SILENCE_MINUTES, minutes),
        !.last_pre_signal_at = Older(@, 2, minutes),
        !.last_signal_interrupted_at = Older(@, INTERRUPTED_COOLDOWN_MINUTES, minutes),
        !.interrupt_stats.hour_key =
            IF boundary /= "none" /\ @ = "current" THEN "past" ELSE @]

\* An invocation in progress: the operation, the statement it has reached and
\* the local variables it holds.
Slots == {1, 2}

IdleProc ==
    [op |-> "idle", pc |-> "done", round |-> 0, seen |-> 0, sig_id |-> NONE,
     stats |-> [hour_key |-> "none", interrupts |-> 0, confirmed |-> 0],
     ds_read |-> [signals_sent |-> 0, today_losses |-> 0],
     kind |-> "none", after |-> "done", msg |-> NONE, variant |-> NONE,
     data |-> NoMonitoring]

\* The journal of a store on which no invocation has run concurrently yet.
JournalOf(st) ==
    [shadow |-> st,
     interrupts |-> IF st.interrupt_stats.hour_key = "current"
                    THEN st.interrupt_stats.interrupts ELSE 0,
     confirmed |-> IF st.interrupt_stats.hour_key = "current"
                   THEN st.interrupt_stats.confirmed ELSE 0]

Init ==
    /\ rounds = <<>>
    /\ signals = <<>>
    /\ daily_stats = [d \in Days |-> EmptyRow]
    /\ engine_state = EmptyState
    /\ current_streak = 0
    /\ last_streak_celebration = 0
    /\ today = 1
    /\ tod = "day"
    /\ ticks = 0
    /\ pre_signal_round = 0
    /\ cancelled_at = engine_state.last_signal_interrupted_at
    /\ keep_alives = <<>>
    /\ payout_list = <<>>
    /\ previous_payout_list = <<>>
    /\ celebrated = {}
    /\ inflight = [p \in Slots |-> IdleProc]
    /\ journal = JournalOf(engine_state)
    /\ sent = <<>>


\* ---- actions -----------------------------------------------------------------
\* The age of the last cancellation after an operation that handed msgs to
\* Telegram: a cancellation notice or the retraction of a pre-signal restarts it.
CancelledSince(age, msgs) ==
    IF \E i \in 1..Len(msgs) : msgs[i].kind \in {"signal_cancelled", "delete"}
    THEN 0 ELSE age

\* The variants of the last two keep-alive messages the channel received,
\* oldest first, after an operation that handed msgs to Telegram.
KeepAlivesDelivered(hist, msgs, ok) ==
    LET IsKeepAlive(m) == m.kind = "keep_alive"
        ka == SelectSeq(msgs, IsKeepAlive)
        all == hist \o [i \in 1..Len(ka) |-> ka[i].arg[1]]
    IN  IF ~ok THEN hist
        ELSE IF Len(all) <= 2 THEN all
        ELSE SubSeq(all, Len(all) - 1, Len(all))

Commit(w) ==
    /\ signals' = w.sig
    /\ daily_stats' = w.ds
    /\ engine_state' = w.st
    /\ current_streak' = w.cs
    /\ last_streak_celebration' = w.lc
    /\ sent' = w.sent
    /\ UNCHANGED <<inflight, journal, payout_list, previous_payout_list>>

Kinds(msgs) == {msgs[i].kind : i \in 1..Len(msgs)}

\* The streak values the channel has seen announced in the running streak: a
\* loss message ends the streak, a streak celebration adds its value.
Announced(before, msgs) ==
    IF "loss" \in Kinds(msgs) THEN {}
    ELSE before \cup {msgs[i].arg[1] :
                         i \in {j \in 1..Len(msgs) : msgs[j].kind = "streak_celebration"}}

\* log_monitor.process_payout_list: save_round_to_db, then on_new_round
NewRound(m, duration_min, ok) ==
    /\ rounds' = Append(rounds, m)
    /\ Commit(OnNewRound(World, rounds', [id |-> Len(rounds'), multiplier |-> m],
                         today, tod, OPERATING_HOURS_ONLY, duration_min, ok))
    /\ pre_signal_round' = IF "pre_signal" \in Kinds(sent') THEN Len(rounds')
                           ELSE pre_signal_round
    /\ cancelled_at' = CancelledSince(cancelled_at, sent')
    /\ keep_alives' = KeepAlivesDelivered(keep_alives, sent', ok)
    /\ celebrated' = Announced(celebrated, sent')
    /\ UNCHANGED <<today, tod, ticks>>

JobKeepAlive(variant, ok) ==
    /\ Commit(CheckAndSendKeepAlive(World, rounds, variant, ok))
    /\ keep_alives' = KeepAlivesDelivered(keep_alives, sent', ok)
    /\ UNCHANGED <<rounds, today, tod, ticks, pre_signal_round, cancelled_at, celebrated>>

JobPatternMonitoring(ok) ==
    /\ Commit(JobPatternMonitoringW(World, rounds, ok))
    /\ UNCHANGED <<rounds, today, tod, ticks, pre_signal_round, cancelled_at,
                   keep_alives, celebrated>>

\* cron 08:00 BRT
JobDailyOpener(ok) ==
    /\ tod = "day"
    /\ Commit(JobDailyOpenerW(World, ok))
    /\ UNCHANGED <<rounds, today, tod, ticks, pre_signal_round, cancelled_at,
                   keep_alives, celebrated>>

\* cron 23:00 BRT
JobDailyClose(ok) ==
    /\ tod = "late"
    /\ Commit(JobDailyCloseW(World, ok))
    /\ UNCHANGED <<rounds, today, tod, ticks, pre_signal_round, cancelled_at,
                   keep_alives, celebrated>>

\* The process is restarted: module globals are re-initialised, the store stays.
Restart ==
    /\ current_streak' = 0
    /\ last_streak_celebration' = 0
    /\ sent' = <<>>
    /\ payout_list' = <<>>
    /\ previous_payout_list' = <<>>
    /\ UNCHANGED <<rounds, signals, daily_stats, engine_state, today, tod, ticks,
                   pre_signal_round, cancelled_at, keep_alives,
                   celebrated, inflight, journal>>

Tick(minutes, boundary) ==
    /\ ticks' = ticks + 1
    /\ engine_state' = AdvanceClock(engine_state, minutes, boundary)
    /\ IF boundary = "span"
       THEN /\ tod' = NextTod(tod)
            /\ IF tod = "late"
               THEN today' = today + 1
               ELSE today' = today
       ELSE UNCHANGED <<tod, today>>
    /\ sent' = <<>>
    /\ cancelled_at' = Older(cancelled_at, INTERRUPTED_COOLDOWN_MINUTES, minutes)
    /\ UNCHANGED <<rounds, signals, daily_stats, current_streak,
                   last_streak_celebration, pre_signal_round, keep_alives,
                   payout_list, previous_payout_list, celebrated, inflight, journal>>

\* random.randint is drawn only on the paths that use it
EntersVolatilityCooldown(m) ==
    /\ ~ActiveSignalExists(signals)
    /\ CheckVolatilityTrigger(GetRecentRounds(Append(rounds, m), 8))
    /\ ~IsInVolatilityCooldown(engine_state)

Durations(m) ==
    IF EntersVolatilityCooldown(m)
    THEN VOLATILITY_COOLDOWN_MIN_MIN..VOLATILITY_COOLDOWN_MAX_MIN
    ELSE {VOLATILITY_COOLDOWN_MIN_MIN}

Variants ==
    IF CheckVolatilityCooldownMidpoint(World, 0, TRUE) /= World THEN 0..2 ELSE {0}

\* A delivery may fail where the engine keeps what Telegram returns (the
\* message ids of the round path); the scheduler jobs' messages are delivered.
Next ==
    \/ \E m \in Mults, ok \in BOOLEAN :
          \E duration_min \in Durations(m) :
              Len(rounds) < MaxRounds /\ NewRound(m, duration_min, ok)
    \/ \E variant \in {0}, ok \in {TRUE} : JobKeepAlive(variant, ok)
    \/ \E ok \in {TRUE} : JobPatternMonitoring(ok)
    \/ \E ok \in {TRUE} : JobDailyOpener(ok)
    \/ \E ok \in {TRUE} : JobDailyClose(ok)
    \/ Restart
    \/ \E minutes \in TickMinutes, boundary \in {"none", "hour", "span"} :
          ticks < MaxTicks /\ Tick(minutes, boundary)

\* The engine with its scheduler, from an empty store.
Spec == Init /\ [][Next]_vars

MultsLong == {110, 180, 250}

EmptyWorld == [sig |-> <<>>, ds |-> [d \in Days |-> EmptyRow], st |-> EmptyState,
               cs |-> 0, lc |-> 0, sent |-> <<>>]

\* The store after on_new_round has processed rnds[1..k] from an empty store,
\* on day 1 within operating hours, every message delivered.
RECURSIVE Replay(_, _)
Replay(rnds, k) ==
    IF k = 0 THEN EmptyWorld
    ELSE OnNewRound([Replay(rnds, k - 1) EXCEPT !.sent = <<>>], SubSeq(rnds, 1, k),
                    [id |-> k, multiplier |-> rnds[k]], 1, "day",
                    OPERATING_HOURS_ONLY, VOLATILITY_COOLDOWN_MIN_MIN, TRUE)

\* A signal opened on round 3 and escalated to gale 2 on rounds 4 and 5.
SeedCooldownRounds == <<180, 180, 180, 110, 110>>

InitCooldown ==
    /\ rounds = SeedCooldownRounds
    /\ signals = Replay(rounds, Len(rounds)).sig
    /\ daily_stats = Replay(rounds, Len(rounds)).ds
    /\ engine_state = Replay(rounds, Len(rounds)).st
    /\ current_streak = Replay(rounds, Len(rounds)).cs
    /\ last_streak_celebration = Replay(rounds, Len(rounds)).lc
    /\ today = 1
    /\ tod = "day"
    /\ ticks = 0
    /\ pre_signal_round = 2
    /\ cancelled_at = engine_state.last_signal_interrupted_at
    /\ keep_alives = <<>>
    /\ payout_list = <<>>
    /\ previous_payout_list = <<>>
    /\ celebrated = {}
    /\ inflight = [p \in Slots |-> IdleProc]
    /\ journal = JournalOf(engine_state)
    /\ sent = Replay(rounds, Len(rounds)).sent

NextCooldown ==
    \/ \E m \in MultsLong, ok \in BOOLEAN :
          \E duration_min \in Durations(m) :
              Len(rounds) < MaxRoundsCooldown /\ NewRound(m, duration_min, ok)
    \/ \E minutes \in TickMinutes :
          ticks < MaxTicks /\ Tick(minutes, "none")

\* Rounds that follow a signal at gale 2: the loss and the post-loss cooldown.
SpecCooldown == InitCooldown /\ [][NextCooldown]_vars

\* Rounds and one advance of the clock: a volatility cooldown that runs out.
NextStale ==
    \/ \E m \in MultsLong, ok \in {TRUE} :
          \E duration_min \in Durations(m) :
              Len(rounds) < MaxRoundsStale /\ NewRound(m, duration_min, ok)
    \/ \E minutes \in {VOLATILITY_COOLDOWN_MAX_MIN} :
          ticks < MaxTicks /\ Tick(minutes, "none")

SpecStale == Init /\ [][NextStale]_vars

\* A store holding one open signal: the run 2.5, 1.1, 1.3, 1.4 with the
\* pre-signal sent on round 3 and the signal opened on round 4, its target as
\* create_signal(trigger_round_id, target) stores the one it is given.
SeedRounds == <<250, 110, 130, 140>>

Targets == {TARGET_CASHOUT, 180}

MultsResolve == {120, 150, 190}

SeedWorld(target) == [Replay(SeedRounds, Len(SeedRounds)) EXCEPT !.sig[1].target = target]

InitResolve ==
    \E target \in Targets :
        /\ rounds = SeedRounds
        /\ signals = SeedWorld(target).sig
        /\ daily_stats = SeedWorld(target).ds
        /\ engine_state = SeedWorld(target).st
        /\ current_streak = 0
        /\ last_streak_celebration = 0
        /\ today = 1
        /\ tod = "day"
        /\ ticks = 0
        /\ pre_signal_round = Len(SeedRounds) - 1
        /\ cancelled_at = engine_state.last_signal_interrupted_at
        /\ keep_alives = <<>>
        /\ payout_list = <<>>
        /\ previous_payout_list = <<>>
        /\ celebrated = {}
        /\ inflight = [p \in Slots |-> IdleProc]
        /\ journal = JournalOf(engine_state)
        /\ sent = SeedWorld(target).sent

NextResolve ==
    \E m \in MultsResolve, ok \in BOOLEAN :
        \E duration_min \in Durations(m) :
            Len(rounds) < MaxRoundsResolve /\ NewRound(m, duration_min, ok)

\* Rounds delivered while a signal of either target is open.
SpecResolve == InitResolve /\ [][NextResolve]_vars

\* Short round sequences over multipliers around the threshold.
MultsTrigger == {110, 130, 140, 200, 250}

NextTrigger ==
    \E m \in MultsTrigger, ok \in BOOLEAN :
        \E duration_min \in Durations(m) :
            Len(rounds) < MaxRoundsTrigger /\ NewRound(m, duration_min, ok)

SpecTrigger == Init /\ [][NextTrigger]_vars

\* ---- winning streaks ------------------------------------------------------------
\* One won signal takes five rounds: the run is broken, two rounds under the
\* threshold bring the pre-signal, the third opens the signal, the next round
\* reaches the target.
WinCycle == <<250, 180, 180, 180, 180>>

CycleMult(i) == WinCycle[((i - 1) % Len(WinCycle)) + 1]

\* Position of the first round that departs from the winning cycle.
FirstOffCycle(rnds) ==
    LET off == {i \in 1..Len(rnds) : rnds[i] /= CycleMult(i)}
    IN  IF off = {} THEN Len(rnds) + 1
        ELSE CHOOSE i \in off : \A j \in off : i <= j

\* The round stream follows the winning cycle for up to MaxStreakWins wins; it
\* may leave the cycle during the first MaxShortWins wins and then carries
\* MaxOffCycle rounds of any multiplier.
StreamAllowed(rnds) ==
    LET first == FirstOffCycle(rnds)
    IN  IF first > Len(rnds) THEN Len(rnds) <= Len(WinCycle) * MaxStreakWins
        ELSE /\ first <= Len(WinCycle) * MaxShortWins
             /\ Len(rnds) - first < MaxOffCycle

\* A minute passes, then the next round arrives.
TimedRound(m, duration_min, ok) ==
    /\ rounds' = Append(rounds, m)
    /\ Commit(OnNewRound([World EXCEPT !.st = AdvanceClock(@, 1, "none")], rounds',
                         [id |-> Len(rounds'), multiplier |-> m],
                         today, tod, OPERATING_HOURS_ONLY, duration_min, ok))
    /\ pre_signal_round' = IF "pre_signal" \in Kinds(sent') THEN Len(rounds')
                           ELSE pre_signal_round
    /\ cancelled_at' = CancelledSince(Older(cancelled_at, INTERRUPTED_COOLDOWN_MINUTES, 1),
                                      sent')
    /\ keep_alives' = KeepAlivesDelivered(keep_alives, sent', ok)
    /\ celebrated' = Announced(celebrated, sent')
    /\ UNCHANGED <<today, tod, ticks>>

\* None of these is under the volatility threshold, so no duration is drawn.
MultsStreak == {120, 180, 250}

NextStreak ==
    \/ \E m \in MultsStreak, ok \in {TRUE} :
          \E duration_min \in {VOLATILITY_COOLDOWN_MIN_MIN} :
              StreamAllowed(Append(rounds, m)) /\ TimedRound(m, duration_min, ok)
    \/ Restart

\* Rounds one minute apart with every message delivered, and process
\* restarts: long winning streaks, and what follows a departure from one.
SpecStreak == Init /\ [][NextStreak]_vars

\* Signals won and lost in turn on one day: every seventh round breaks the
\* pattern, three rounds under the threshold open a signal, and each of the
\* three rounds that follow reaches the target or not.
LossCycleLen == SEQUENCE_LENGTH + MAX_GALE + 2

MultsLosses(i) ==
    LET k == ((i - 1) % LossCycleLen) + 1
    IN  IF k = 1 THEN {250}
        ELSE IF k <= SEQUENCE_LENGTH + 1 THEN {140}
        ELSE {140, 180}

NextLosses ==
    \E m \in MultsLosses(Len(rounds) + 1), ok \in {TRUE} :
        \E duration_min \in {VOLATILITY_COOLDOWN_MIN_MIN} :
            Len(rounds) < MaxRoundsLosses /\ TimedRound(m, duration_min, ok)

SpecLosses == Init /\ [][NextLosses]_vars

\* ---- volatility cooldown windows ------------------------------------------------
MultsVolatility == {110, 180}

\* Short of the earliest midpoint, and enough to pass any midpoint.
TickMinutesVolatility == {1, 4}

NextVolatility ==
    \/ \E m \in MultsVolatility, ok \in {TRUE} :
          \E duration_min \in Durations(m) :
              Len(rounds) < MaxRoundsVolatility /\ NewRound(m, duration_min, ok)
    \/ \E variant \in Variants, ok \in BOOLEAN : JobKeepAlive(variant, ok)
    \/ \E ok \in {TRUE} : JobPatternMonitoring(ok)
    \/ \E minutes \in TickMinutesVolatility :
          ticks < MaxTicksVolatility /\ Tick(minutes, "none")

\* Rounds, the keep-alive and pattern-monitoring jobs and several clock
\* advances: volatility cooldown windows from entry to expiry.
SpecVolatility == Init /\ [][NextVolatility]_vars

\* ---- interrupted runs --------------------------------------------------------------
\* A pre-signal on round 2 and its run broken on round 3: the first cancellation
\* notice of the hour has been posted.
SeedInterruptRounds == <<180, 180, 250>>

InitInterrupt ==
    /\ rounds = SeedInterruptRounds
    /\ signals = Replay(rounds, Len(rounds)).sig
    /\ daily_stats = Replay(rounds, Len(rounds)).ds
    /\ engine_state = Replay(rounds, Len(rounds)).st
    /\ current_streak = Replay(rounds, Len(rounds)).cs
    /\ last_streak_celebration = Replay(rounds, Len(rounds)).lc
    /\ today = 1
    /\ tod = "day"
    /\ ticks = 0
    /\ pre_signal_round = 2
    /\ cancelled_at = engine_state.last_signal_interrupted_at
    /\ keep_alives = <<>>
    /\ payout_list = <<>>
    /\ previous_payout_list = <<>>
    /\ celebrated = {}
    /\ inflight = [p \in Slots |-> IdleProc]
    /\ journal = JournalOf(engine_state)
    /\ sent = Replay(rounds, Len(rounds)).sent

MultsInterrupt == {180, 200, 250}

NextInterrupt ==
    \/ \E m \in MultsInterrupt, ok \in BOOLEAN :
          \E duration_min \in Durations(m) :
              Len(rounds) < MaxRoundsInterrupt /\ NewRound(m, duration_min, ok)
    \/ \E boundary \in {"none", "hour"} :
          ticks < MaxTicks /\ Tick(INTERRUPTED_COOLDOWN_MINUTES, boundary)

\* Rounds that follow a posted cancellation, in the same hour or the next.
SpecInterrupt == InitInterrupt /\ [][NextInterrupt]_vars

\* Runs broken after the first notice of the hour, with two clock advances of
\* the interrupted-cooldown length: a second pre-signal, its cancellation, and
\* the rounds after it.
MultsCancel == {180, 250}

NextCancel ==
    \/ \E m \in MultsCancel, ok \in BOOLEAN :
          \E duration_min \in Durations(m) :
              Len(rounds) < MaxRoundsCancel /\ NewRound(m, duration_min, ok)
    \/ \E boundary \in {"none", "hour"} :
          ticks < MaxTicksCancel /\ Tick(INTERRUPTED_COOLDOWN_MINUTES, boundary)

SpecCancel == InitInterrupt /\ [][NextCancel]_vars

\* ---- rounds and clock only, every notification delivered or not ----------------
MultsDelivery == {110, 180, 250}

\* the shortest and the longest cooldown random.randint can draw
DurationsDelivery(m) ==
    Durations(m) \cap {VOLATILITY_COOLDOWN_MIN_MIN, VOLATILITY_COOLDOWN_MAX_MIN}

\* a pause that outlasts every time-based gate
NextDelivery ==
    \/ \E m \in MultsDelivery, ok \in BOOLEAN :
          \E duration_min \in DurationsDelivery(m) :
              Len(rounds) < MaxRoundsDelivery /\ NewRound(m, duration_min, ok)
    \/ \E boundary \in {"none", "hour"} :
          ticks < MaxTicksDelivery /\ Tick(VOLATILITY_COOLDOWN_MAX_MIN, boundary)

SpecDelivery == Init /\ [][NextDelivery]_vars

\* ---- store reads that raise ---------------------------------------------------------
\* get_active_signal, _get_engine_state and in_cooldown catch the exception of
\* a failed read and return None, {} and False.  A fault names the reads that
\* fail during one invocation of on_new_round; the writes go through.
Faults == [active : BOOLEAN, state : BOOLEAN, latest : BOOLEAN]

NoFault == [active |-> FALSE, state |-> FALSE, latest |-> FALSE]

\* in_cooldown, its latest-round lookup raising when f.latest
InCooldownFaulty(st, rnds, f) ==
    IF st.cooldown_until_round_id = NONE THEN FALSE
    ELSE IF f.latest THEN FALSE
    ELSE InCooldown(st, rnds)

\* check_trigger, its active_signal_exists() reading None when f.active
CheckTriggerFaulty(w, rnds, recent, oho, t, f) ==
    IF ~f.active /\ ActiveSignalExists(w.sig) THEN FALSE
    ELSE IF InCooldownFaulty(w.st, rnds, f) THEN FALSE
    ELSE IF IsInVolatilityCooldown(w.st) THEN FALSE
    ELSE IF IsSessionClosed(w.st, oho, t) THEN FALSE
    ELSE IF Len(recent) < SEQUENCE_LENGTH THEN FALSE
    ELSE \A i \in 1..SEQUENCE_LENGTH : MultOr(recent[i], 0) < THRESHOLD

\* on_new_round past the active-signal branch with every _get_engine_state()
\* returning {}: no cooldown of any kind is seen, pre_signal_sent reads False.
OnNewRoundIdleNoState(w, rnds, round_data, d, t, oho, duration_min, ok, f) ==
    LET recent == GetRecentRounds(rnds, 8)
        consecutive == ConsecutiveUnderThreshold(recent)
        seen == [w EXCEPT !.st = EmptyState]
    IN  IF CheckVolatilityTrigger(recent)
        THEN EnterVolatilityCooldown(w, duration_min, ok)
        ELSE IF IsSessionClosed(seen.st, oho, t) THEN w
        ELSE IF CheckTriggerFaulty(seen, rnds, recent, oho, t, f) THEN w
        ELSE IF consecutive = 2
        THEN LET w1 == SetPreSignalSent(SendPreSignalAnalyzing(w, ok), TRUE)
             IN  [w1 EXCEPT !.st.last_pre_signal_at = 0,
                            !.st.last_pre_signal_message_id =
                                IF MsgId(ok) /= NONE THEN MsgId(ok) ELSE @]
        ELSE IF consecutive < 2
        THEN ClearPreSignalState(w)
        ELSE w

\* on_new_round past the active-signal branch, the engine state readable
OnNewRoundIdleFaulty(w, rnds, round_data, d, t, oho, duration_min, ok, f) ==
    LET recent == GetRecentRounds(rnds, 8)
    IN  IF CheckVolatilityTrigger(recent) /\ ~IsInVolatilityCooldown(w.st)
        THEN EnterVolatilityCooldown(w, duration_min, ok)
        ELSE IF IsInVolatilityCooldown(w.st) THEN w
        ELSE IF InCooldownFaulty(w.st, rnds, f) \/ IsSessionClosed(w.st, oho, t) THEN w
        ELSE LET consecutive == ConsecutiveUnderThreshold(recent)
                 current_mult_val == IF round_data.multiplier = NONE THEN 0
                                     ELSE round_data.multiplier
             IN  IF /\ PreSignalSentForRun(w.st)
                    /\ current_mult_val > THRESHOLD
                    /\ consecutive < SEQUENCE_LENGTH
                 THEN InterruptRun(w, ok)
                 ELSE IF CheckTriggerFaulty(w, rnds, recent, oho, t, f)
                 THEN IF ~PreSignalSentForRun(w.st) THEN w
                      ELSE CreateSignal(ClearPreSignalState(w), rnds,
                                        recent[1].id, TARGET_CASHOUT, d, ok)
                 ELSE IF consecutive = 2 /\ ~PreSignalSentForRun(w.st)
                 THEN PreSignal(w, ok)
                 ELSE IF consecutive < 2
                 THEN ClearPreSignalState(w)
                 ELSE w

OnNewRoundFaulty(w, rnds, round_data, d, t, oho, duration_min, ok, f) ==
    LET active == IF f.active THEN NONE ELSE GetActiveSignal(w.sig)
    IN  IF active /= NONE THEN ResolveSignal(w, active, round_data, d, ok)
        ELSE IF f.state
        THEN OnNewRoundIdleNoState(w, rnds, round_data, d, t, oho, duration_min, ok, f)
        ELSE OnNewRoundIdleFaulty(w, rnds, round_data, d, t, oho, duration_min, ok, f)

\* save_round_to_db, then on_new_round during which the reads named by f fail
FaultyRound(m, duration_min, ok, f) ==
    /\ rounds' = Append(rounds, m)
    /\ Commit(OnNewRoundFaulty(World, rounds', [id |-> Len(rounds'), multiplier |-> m],
                               today, tod, OPERATING_HOURS_ONLY, duration_min, ok, f))
    /\ pre_signal_round' = IF "pre_signal" \in Kinds(sent') THEN Len(rounds')
                           ELSE pre_signal_round
    /\ cancelled_at' = CancelledSince(cancelled_at, sent')
    /\ keep_alives' = KeepAlivesDelivered(keep_alives, sent', ok)
    /\ celebrated' = Announced(celebrated, sent')
    /\ UNCHANGED <<today, tod, ticks>>

\* under the target, between target and threshold, above the threshold
MultsFault == {140, 180, 250}

NextFault ==
    \/ \E m \in MultsFault, f \in Faults :
          Len(rounds) < MaxRoundsFault
          /\ FaultyRound(m, VOLATILITY_COOLDOWN_MIN_MIN, TRUE, f)
    \/ ticks < MaxTicksFault /\ Tick(INTERRUPTED_COOLDOWN_MINUTES, "none")

SpecFault == Init /\ [][NextFault]_vars

\* ---- a signal open across midnight ----------------------------------------------
\* From a signal at gale 2: the rounds that resolve it and those of the next
\* run, the clock moving from the day into the night and past midnight (BRT),
\* the session opened by the daily opener or not.
NextMidnight ==
    \/ \E m \in MultsLong :
          Len(rounds) < MaxRoundsMidnight
          /\ NewRound(m, VOLATILITY_COOLDOWN_MIN_MIN, TRUE)
    \/ JobDailyOpener(TRUE)
    \/ ticks < MaxTicksMidnight /\ Tick(1, "span")

SpecMidnight == InitCooldown /\ [][NextMidnight]_vars

\* ---- a round delivered twice -----------------------------------------------------
\* on_new_round called again with the document of the newest round, which is
\* already in the store
Redeliver(duration_min, ok) ==
    /\ Len(rounds) > 0
    /\ Commit(OnNewRound(World, rounds,
                         [id |-> Len(rounds), multiplier |-> rounds[Len(rounds)]],
                         today, tod, OPERATING_HOURS_ONLY, duration_min, ok))
    /\ pre_signal_round' = IF "pre_signal" \in Kinds(sent') THEN Len(rounds)
                           ELSE pre_signal_round
    /\ cancelled_at' = CancelledSince(cancelled_at, sent')
    /\ keep_alives' = KeepAlivesDelivered(keep_alives, sent', ok)
    /\ celebrated' = Announced(celebrated, sent')
    /\ UNCHANGED <<rounds, today, tod, ticks>>

MultsRedeliver == {140, 180, 250}

NextRedeliver ==
    \/ \E m \in MultsRedeliver :
          Len(rounds) < MaxRoundsRedeliver
          /\ NewRound(m, VOLATILITY_COOLDOWN_MIN_MIN, TRUE)
    \/ Redeliver(VOLATILITY_COOLDOWN_MIN_MIN, TRUE)

SpecRedeliver == Init /\ [][NextRedeliver]_vars

\* ---- rounds stored without a multiplier ------------------------------------------
MultsMissing == {NONE, 180, 250}

NextMissing ==
    \E m \in MultsMissing, ok \in {TRUE} :
        Len(rounds) < MaxRoundsMissing /\ NewRound(m, VOLATILITY_COOLDOWN_MIN_MIN, ok)

\* on_new_round for round documents of which some carry no multiplier
SpecMissing == Init /\ [][NextMissing]_vars

\* ---- concurrent callers: on_new_round and the jobs, statement by statement -------
\* Each store access of the code is one step; the reads that precede a
\* function's first write are taken together.  A send and the
\* record_message_sent callback it triggers are one step.

\* replace_one({"_id": "state"}, upd): the document becomes the fields named
StoreReplace(st, upd) ==
    [f \in DOMAIN st |-> IF f \in DOMAIN upd THEN upd[f] ELSE EmptyState[f]]

\* update_one({"_id": "state"}, {"$set": upd}): the fields named are written,
\* the others stay.
StoreSet(st, upd) == [f \in DOMAIN st |-> IF f \in DOMAIN upd THEN upd[f] ELSE st[f]]

NoUpd == <<>>

\* record_message_sent, run by send_message after a delivered message
RecordMessageSent(ok) == IF ok THEN [last_message_at |-> 0] ELSE NoUpd

Msg(kind, arg) == <<[kind |-> kind, arg |-> arg]>>

Goto(pr, pc) == [pr EXCEPT !.pc = pc]

\* What one step does: the invocation's next position, the collections and
\* globals, the $set applied to the engine state, the messages handed to
\* Telegram, the interrupt event recorded.
Out(pr, w, upd, msgs, ev) ==
    [pr |-> pr, sig |-> w.sig, ds |-> w.ds, cs |-> w.cs, lc |-> w.lc,
     upd |-> upd, msgs |-> msgs, ev |-> ev]

Changed(st, st2) == [f \in {g \in DOMAIN st : st2[g] /= st[g]} |-> st2[f]]

\* _record_interrupt_event in two steps: the read of the hourly stats, and the
\* write of the document computed from them.
RecordInterruptRead(pr, w) ==
    Out([pr EXCEPT !.pc = "rec_write", !.stats = GetInterruptStats(w.st)],
        w, NoUpd, <<>>, "none")

RecordInterruptWrite(pr, w) ==
    LET stats2 == IF pr.kind = "interrupted"
                  THEN [pr.stats EXCEPT !.interrupts = @ + 1]
                  ELSE [pr.stats EXCEPT !.confirmed = @ + 1]
    IN  Out(Goto(pr, pr.after), w,
            IF pr.kind = "interrupted"
            THEN [interrupt_stats |-> stats2, last_signal_interrupted_at |-> 0]
            ELSE [interrupt_stats |-> stats2],
            <<>>, pr.kind)

\* on_new_round from its first statement; a round that finds a signal open
\* resolves it in one step.
RoundStart(pr, w, rnds, d, ok) ==
    LET active == GetActiveSignal(w.sig)
        round_data == [id |-> pr.round, multiplier |-> rnds[pr.round]]
    IN  IF active /= NONE
        THEN LET w2 == ResolveSignal(w, active, round_data, d, ok)
             IN  Out(Goto(pr, "done"), w2, Changed(w.st, w2.st), w2.sent, "none")
        ELSE Out([pr EXCEPT !.pc = "gates", !.seen = Len(rnds)], w, NoUpd, <<>>, "none")

\* lines 882-964 up to the first write of the branch taken
RoundGates(pr, w, rnds, t, oho) ==
    LET recent == GetRecentRounds(SubSeq(rnds, 1, pr.seen), 8)
        consecutive == ConsecutiveUnderThreshold(recent)
        last_pre == w.st.last_pre_signal_at
        next == IF CheckVolatilityTrigger(recent) /\ ~IsInVolatilityCooldown(w.st)
                THEN "vol_set"
                ELSE IF IsInVolatilityCooldown(w.st) THEN "done"
                ELSE IF InCooldown(w.st, rnds) \/ IsSessionClosed(w.st, oho, t) THEN "done"
                ELSE IF /\ PreSignalSentForRun(w.st)
                        /\ rnds[pr.round] > THRESHOLD
                        /\ consecutive < SEQUENCE_LENGTH
                THEN IF ShouldPostInterruptedSignal(w.st) THEN "int_send"
                     ELSE IF w.st.last_pre_signal_message_id /= NONE THEN "int_delete"
                     ELSE "int_clear"
                ELSE IF CheckTrigger(w, rnds, recent, oho, t)
                THEN IF ~PreSignalSentForRun(w.st) THEN "done" ELSE "create_clear"
                ELSE IF consecutive = 2 /\ ~PreSignalSentForRun(w.st)
                THEN IF IsInInterruptedCooldown(w.st) THEN "done"
                     ELSE IF last_pre /= NONE /\ last_pre * 60 < PRE_SIGNAL_MIN_INTERVAL_SEC
                     THEN "done"
                     ELSE "pre_send"
                ELSE IF consecutive < 2 THEN "reset_flag"
                ELSE "done"
    IN  Out(Goto(pr, next), w, NoUpd, <<>>, "none")

\* create_signal from _next_signal_id on.  insert_one raises on an _id that
\* is taken, and create_signal returns None from its except clause.
CreateInsert(pr, w, trigger_round_id, d) ==
    LET doc == [id |-> pr.sig_id,
                trigger_round_id |-> trigger_round_id,
                target |-> TARGET_CASHOUT,
                status |-> STATUS_ACTIVE,
                result_round_id |-> NONE,
                result_multiplier |-> NONE,
                gale_depth |-> 0,
                created_at |-> d,
                resolved_at |-> NONE,
                telegram_message_id |-> NONE]
    IN  IF pr.sig_id <= Len(w.sig)
        THEN Out(Goto(pr, "done"), w, NoUpd, <<>>, "none")
        ELSE Out(Goto(pr, "stats_read"), [w EXCEPT !.sig = Append(@, doc)],
                 NoUpd, <<>>, "none")

RoundStep(pr, w, rnds, d, t, oho, duration_min, ok) ==
    CASE pr.pc = "start" -> RoundStart(pr, w, rnds, d, ok)
      [] pr.pc = "gates" -> RoundGates(pr, w, rnds, t, oho)
      [] pr.pc = "vol_set" ->
            Out(Goto(pr, "vol_send"), w,
                [volatility_cooldown_until |-> duration_min,
                 volatility_cooldown_started_at |-> 0,
                 volatility_cooldown_duration_min |-> duration_min,
                 volatility_cooldown_midpoint_sent |-> FALSE], <<>>, "none")
      [] pr.pc = "vol_send" ->
            Out(Goto(pr, "done"), w, RecordMessageSent(ok), Msg("cooldown_mode", <<>>), "none")
      [] pr.pc = "int_send" ->
            Out([pr EXCEPT !.pc = "rec_read", !.kind = "interrupted", !.after = "int_clear"],
                w, RecordMessageSent(ok), Msg("signal_cancelled", <<>>), "none")
      [] pr.pc = "int_delete" ->
            Out(Goto(pr, "int_clear"), w, NoUpd, Msg("delete", <<>>), "none")
      [] pr.pc = "int_clear" ->
            Out(Goto(pr, "done"), w,
                [pre_signal_sent |-> FALSE, last_pre_signal_message_id |-> NONE], <<>>, "none")
      [] pr.pc = "rec_read" -> RecordInterruptRead(pr, w)
      [] pr.pc = "rec_write" -> RecordInterruptWrite(pr, w)
      [] pr.pc = "create_clear" ->
            Out(Goto(pr, "ensure"), w,
                [pre_signal_sent |-> FALSE, last_pre_signal_message_id |-> NONE], <<>>, "none")
      [] pr.pc = "ensure" ->
            Out(Goto(pr, "next_id"), EnsureDailyStats(w, d), NoUpd, <<>>, "none")
      [] pr.pc = "next_id" ->
            Out([pr EXCEPT !.pc = "insert", !.sig_id = NextSignalId(w.sig)],
                w, NoUpd, <<>>, "none")
      [] pr.pc = "insert" -> CreateInsert(pr, w, pr.seen, d)
      [] pr.pc = "stats_read" ->
            Out([pr EXCEPT !.pc = "stats_write",
                           !.ds_read = [signals_sent |-> w.ds[d].signals_sent,
                                        today_losses |-> w.ds[d].today_losses]],
                w, NoUpd, <<>>, "none")
      [] pr.pc = "stats_write" ->
            Out(Goto(pr, "send"),
                [w EXCEPT !.ds[d].present = TRUE,
                          !.ds[d].signals_sent = @ + 1,
                          !.ds[d].today_wins =
                              Max(0, pr.ds_read.signals_sent + 1 - pr.ds_read.today_losses)],
                NoUpd, <<>>, "none")
      [] pr.pc = "send" ->
            Out([pr EXCEPT !.pc = "rec_read", !.kind = "confirmed", !.after = "set_msg",
                           !.msg = MsgId(ok)],
                w, RecordMessageSent(ok), Msg("signal", <<>>), "none")
      [] pr.pc = "set_msg" ->
            Out(Goto(pr, "done"),
                IF pr.msg /= NONE
                THEN [w EXCEPT !.sig[pr.sig_id].telegram_message_id = pr.msg]
                ELSE w,
                NoUpd, <<>>, "none")
      [] pr.pc = "pre_send" ->
            Out([pr EXCEPT !.pc = "pre_flag", !.msg = MsgId(ok)],
                w, RecordMessageSent(ok), Msg("pre_signal", <<>>), "none")
      [] pr.pc = "pre_flag" ->
            Out(Goto(pr, "pre_stamp"), w, [pre_signal_sent |-> TRUE], <<>>, "none")
      [] pr.pc = "pre_stamp" ->
            Out(Goto(pr, "done"), w,
                IF pr.msg /= NONE
                THEN [last_pre_signal_at |-> 0, last_pre_signal_message_id |-> pr.msg]
                ELSE [last_pre_signal_at |-> 0],
                <<>>, "none")
      [] pr.pc = "reset_flag" ->
            Out(Goto(pr, "reset_ref"), w, [pre_signal_sent |-> FALSE], <<>>, "none")
      [] pr.pc = "reset_ref" ->
            Out(Goto(pr, "done"), w, [last_pre_signal_message_id |-> NONE], <<>>, "none")

\* check_and_send_keep_alive: the midpoint check, the gates, the rotating
\* keep-alive and the write that follows it.
KeepAliveGates(pr, w, rnds) ==
    LET st == w.st
    IN  IF \/ IsInVolatilityCooldown(st)
           \/ InCooldown(st, rnds)
           \/ IsInInterruptedCooldown(st)
           \/ ActiveSignalExists(w.sig)
           \/ st.last_message_at = NONE
           \/ st.last_message_at < KEEP_ALIVE_SILENCE_MINUTES
        THEN Out(Goto(pr, "done"), w, NoUpd, <<>>, "none")
        ELSE Out([pr EXCEPT !.pc = "ka_send",
                            !.variant = (st.last_keep_alive_variant + 1) % 3],
                 w, NoUpd, <<>>, "none")

KeepAliveStep(pr, w, rnds, variant, ok) ==
    CASE pr.pc = "ka_mid" ->
            Out(Goto(pr, IF CheckVolatilityCooldownMidpoint(w, 0, TRUE) /= w
                         THEN "ka_mid_send" ELSE "ka_gates"),
                w, NoUpd, <<>>, "none")
      [] pr.pc = "ka_mid_send" ->
            Out(Goto(pr, "ka_mid_write"), w, RecordMessageSent(ok),
                Msg("keep_alive", <<variant>>), "none")
      [] pr.pc = "ka_mid_write" ->
            Out(Goto(pr, "ka_gates"), w,
                [volatility_cooldown_midpoint_sent |-> TRUE], <<>>, "none")
      [] pr.pc = "ka_gates" -> KeepAliveGates(pr, w, rnds)
      [] pr.pc = "ka_send" ->
            Out(Goto(pr, "ka_write"), w, RecordMessageSent(ok),
                Msg("keep_alive", <<pr.variant>>), "none")
      [] pr.pc = "ka_write" ->
            Out(Goto(pr, "done"), w,
                [last_message_at |-> 0, last_keep_alive_variant |-> pr.variant],
                <<>>, "none")

\* _job_daily_opener: clear_session_closed, then the opener message
OpenerStep(pr, w, ok) ==
    CASE pr.pc = "op_clear" ->
            Out(Goto(pr, "op_send"), w, [session_closed |-> "false"], <<>>, "none")
      [] pr.pc = "op_send" ->
            Out(Goto(pr, "done"), w, RecordMessageSent(ok), Msg("daily_opener", <<>>), "none")

\* _job_pattern_monitoring: the query, then the report
MonitoringStep(pr, w, rnds, ok) ==
    CASE pr.pc = "pm_read" ->
            LET data == GetPatternMonitoringData(w.sig, w.st, rnds)
            IN  Out([pr EXCEPT !.pc = IF data.some THEN "pm_send" ELSE "done",
                               !.data = data],
                    w, NoUpd, <<>>, "none")
      [] pr.pc = "pm_send" ->
            Out(Goto(pr, "done"), w, RecordMessageSent(ok),
                Msg("pattern_monitoring", <<pr.data.count, pr.data.remaining>>), "none")

MicroStep(pr, w, rnds, d, t, oho, duration_min, variant, ok) ==
    CASE pr.op = "round" -> RoundStep(pr, w, rnds, d, t, oho, duration_min, ok)
      [] pr.op = "keep_alive" -> KeepAliveStep(pr, w, rnds, variant, ok)
      [] pr.op = "opener" -> OpenerStep(pr, w, ok)
      [] pr.op = "monitoring" -> MonitoringStep(pr, w, rnds, ok)

FirstStatement(op) ==
    CASE op = "round" -> "start"
      [] op = "keep_alive" -> "ka_mid"
      [] op = "opener" -> "op_clear"
      [] op = "monitoring" -> "pm_read"

\* save_round_to_db, and on_new_round is entered for the round
Arrive(p, m) ==
    /\ inflight[p].op = "idle"
    /\ rounds' = Append(rounds, m)
    /\ inflight' = [inflight EXCEPT ![p] =
          [IdleProc EXCEPT !.op = "round", !.pc = "start", !.round = Len(rounds')]]
    /\ sent' = <<>>
    /\ UNCHANGED <<signals, daily_stats, engine_state, current_streak,
                   last_streak_celebration, today, tod, ticks, pre_signal_round,
                   cancelled_at, keep_alives, payout_list, previous_payout_list,
                   celebrated, journal>>

\* the scheduler starts a job
Fire(p, op) ==
    /\ inflight[p].op = "idle"
    /\ inflight' = [inflight EXCEPT ![p] =
          [IdleProc EXCEPT !.op = op, !.pc = FirstStatement(op)]]
    /\ sent' = <<>>
    /\ UNCHANGED <<rounds, signals, daily_stats, engine_state, current_streak,
                   last_streak_celebration, today, tod, ticks, pre_signal_round,
                   cancelled_at, keep_alives, payout_list, previous_payout_list,
                   celebrated, journal>>

\* The field-by-field effect of the writes issued, in the order issued.
FieldSet(doc, upd) == [f \in DOMAIN doc |-> IF f \in DOMAIN upd THEN upd[f] ELSE doc[f]]

\* the invocation in slot p executes its next statement
Step(p, duration_min, variant, ok) ==
    /\ inflight[p].op /= "idle"
    /\ LET r == MicroStep(inflight[p], World, rounds, today, tod, OPERATING_HOURS_ONLY,
                          duration_min, variant, ok)
       IN  /\ signals' = r.sig
           /\ daily_stats' = r.ds
           /\ engine_state' = StoreSet(engine_state, r.upd)
           /\ current_streak' = r.cs
           /\ last_streak_celebration' = r.lc
           /\ sent' = r.msgs
           /\ inflight' = [inflight EXCEPT ![p] =
                              IF r.pr.pc = "done" THEN IdleProc ELSE r.pr]
           /\ journal' = [shadow |-> FieldSet(journal.shadow, r.upd),
                          interrupts |-> journal.interrupts
                                         + (IF r.ev = "interrupted" THEN 1 ELSE 0),
                          confirmed |-> journal.confirmed
                                        + (IF r.ev = "confirmed" THEN 1 ELSE 0)]
           /\ pre_signal_round' = IF "pre_signal" \in Kinds(r.msgs)
                                  THEN inflight[p].round ELSE pre_signal_round
           /\ cancelled_at' = CancelledSince(cancelled_at, r.msgs)
           /\ keep_alives' = KeepAlivesDelivered(keep_alives, r.msgs, ok)
           /\ celebrated' = Announced(celebrated, r.msgs)
    /\ UNCHANGED <<rounds, today, tod, ticks, payout_list, previous_payout_list>>

\* A run with its pre-signal sent on round 3: the next round under the
\* threshold opens a signal, a round above it interrupts the run.
SeedRaceRounds == <<250, 180, 180>>

InitRace ==
    /\ rounds = SeedRaceRounds
    /\ signals = Replay(rounds, Len(rounds)).sig
    /\ daily_stats = Replay(rounds, Len(rounds)).ds
    /\ engine_state = Replay(rounds, Len(rounds)).st
    /\ current_streak = Replay(rounds, Len(rounds)).cs
    /\ last_streak_celebration = Replay(rounds, Len(rounds)).lc
    /\ today = 1
    /\ tod = "day"
    /\ ticks = 0
    /\ pre_signal_round = 3
    /\ cancelled_at = engine_state.last_signal_interrupted_at
    /\ keep_alives = <<>>
    /\ payout_list = <<>>
    /\ previous_payout_list = <<>>
    /\ celebrated = {}
    /\ inflight = [p \in Slots |-> IdleProc]
    /\ journal = JournalOf(engine_state)
    /\ sent = Replay(rounds, Len(rounds)).sent

MultsRace == {180, 250}

NextRace ==
    \/ \E p \in Slots, m \in MultsRace :
          Len(rounds) < MaxRoundsRace /\ Arrive(p, m)
    \/ \E p \in Slots, ok \in BOOLEAN :
          Step(p, VOLATILITY_COOLDOWN_MIN_MIN, 0, ok)

\* Two instances of the engine on one store, each entering on_new_round for
\* the rounds it saves.  The module globals are those of the instance that
\* resolves a signal.
SpecRace == InitRace /\ [][NextRace]_vars

\* Five minutes after the pre-signal of round 3, and five minutes into the
\* volatility cooldown entered on round 3.
SeedTickRaceRounds == {<<250, 180, 180>>, <<110, 110, 110>>}

InitTickRace ==
    \E seed \in SeedTickRaceRounds :
        /\ rounds = seed
        /\ signals = Replay(seed, Len(seed)).sig
        /\ daily_stats = Replay(seed, Len(seed)).ds
        /\ engine_state = AdvanceClock(Replay(seed, Len(seed)).st,
                                       KEEP_ALIVE_SILENCE_MINUTES, "none")
        /\ current_streak = Replay(seed, Len(seed)).cs
        /\ last_streak_celebration = Replay(seed, Len(seed)).lc
        /\ today = 1
        /\ tod = "day"
        /\ ticks = 0
        /\ pre_signal_round = IF seed[1] = 250 THEN 3 ELSE 2
        /\ cancelled_at = engine_state.last_signal_interrupted_at
        /\ keep_alives = <<>>
        /\ payout_list = <<>>
        /\ previous_payout_list = <<>>
        /\ celebrated = {}
        /\ inflight = [p \in Slots |-> IdleProc]
        /\ journal = JournalOf(engine_state)
        /\ sent = <<>>

MultsTickRace == {110, 180, 250}

TickOps == {"keep_alive", "opener", "monitoring"}

NextTickRace ==
    \/ \E m \in MultsTickRace :
          Len(rounds) < MaxRoundsTickRace /\ Arrive(1, m)
    \/ \E op \in TickOps : Fire(2, op)
    \/ \E p \in Slots,
          duration_min \in {VOLATILITY_COOLDOWN_MIN_MIN, VOLATILITY_COOLDOWN_MAX_MIN},
          variant \in 0..2, ok \in BOOLEAN :
          Step(p, duration_min, variant, ok)

\* The polling loop's on_new_round and the scheduler's jobs as concurrent
\* callers of one store.
SpecTickRace == InitTickRace /\ [][NextTickRace]_vars
\* ---- log_monitor.py: the payout list of the page, poll by poll -------------------
\* Payout strings as the page shows them, newest first.
Payouts == {"1.40x", "2.50x"}

\* convert_multiplier_to_decimal: the 'x' and the thousands separators go, the
\* rest is read as a decimal (kept in hundredths); None for anything else.
ConvertMultiplierToDecimal(multiplier_str) ==
    CASE multiplier_str = "1.40x" -> 140
      [] multiplier_str = "2.50x" -> 250
      [] OTHER -> NONE

MultsPayouts == {ConvertMultiplierToDecimal(p) : p \in Payouts}

\* list.index(x), counted from 1; 0 where Python raises ValueError
Index(list, x) ==
    IF \E i \in 1..Len(list) : list[i] = x
    THEN CHOOSE i \in 1..Len(list) :
             list[i] = x /\ \A j \in 1..(i - 1) : list[j] /= x
    ELSE 0

\* process_payout_list: the payouts taken as new, newest first
NewValues(list, previous) ==
    IF list = <<>> \/ previous = <<>> THEN <<>>
    ELSE LET previous_first == previous[1]
             match_index == Index(list, previous_first) - 1
         IN  IF match_index > 0 THEN SubSeq(list, 1, match_index)
             ELSE IF list[1] /= previous_first THEN <<list[1]>>
             ELSE <<>>

\* The store, the engine and the histories kept beside them, as one value.
Polled == [w |-> World, rnds |-> rounds, psr |-> pre_signal_round,
           ca |-> cancelled_at, ka |-> keep_alives, cel |-> celebrated]

\* save_round_to_db for one payout, then on_new_round with the saved document
SaveRoundToDb(h, multiplier_str, d, t, duration_min, ok) ==
    LET multiplier == ConvertMultiplierToDecimal(multiplier_str)
        rnds == Append(h.rnds, multiplier)
        w == OnNewRound([h.w EXCEPT !.sent = <<>>], rnds,
                        [id |-> Len(rnds), multiplier |-> multiplier],
                        d, t, OPERATING_HOURS_ONLY, duration_min, ok)
    IN  IF multiplier = NONE THEN h
        ELSE [w |-> w, rnds |-> rnds,
              psr |-> IF "pre_signal" \in Kinds(w.sent) THEN Len(rnds) ELSE h.psr,
              ca |-> CancelledSince(h.ca, w.sent),
              ka |-> KeepAlivesDelivered(h.ka, w.sent, ok),
              cel |-> Announced(h.cel, w.sent)]

\* for multiplier_str in reversed(new_values): from new_values[n] down to [1]
RECURSIVE SaveReversed(_, _, _, _, _, _, _)
SaveReversed(h, new_values, n, d, t, duration_min, ok) ==
    IF n = 0 THEN h
    ELSE SaveReversed(SaveRoundToDb(h, new_values[n], d, t, duration_min, ok),
                      new_values, n - 1, d, t, duration_min, ok)

\* one call of process_payout_list by the polling loop
ProcessPayoutList(list, duration_min, ok) ==
    LET new_values == NewValues(list, previous_payout_list)
        h == SaveReversed(Polled, new_values, Len(new_values), today, tod,
                          duration_min, ok)
    IN  /\ payout_list' = list
        /\ previous_payout_list' =
              IF list = <<>> THEN previous_payout_list
              ELSE IF previous_payout_list = <<>> THEN list
              ELSE IF new_values /= <<>> THEN list
              ELSE previous_payout_list
        /\ rounds' = h.rnds
        /\ signals' = h.w.sig
        /\ daily_stats' = h.w.ds
        /\ engine_state' = h.w.st
        /\ current_streak' = h.w.cs
        /\ last_streak_celebration' = h.w.lc
        /\ sent' = h.w.sent
        /\ pre_signal_round' = h.psr
        /\ cancelled_at' = h.ca
        /\ keep_alives' = h.ka
        /\ celebrated' = h.cel
        /\ UNCHANGED <<today, tod, ticks, inflight, journal>>

\* Up to two payouts appear on the page between two polls.
NewPayouts == {<<>>} \cup {<<a>> : a \in Payouts}
                     \cup {<<a, b>> : a \in Payouts, b \in Payouts}

NextPayouts ==
    \E new \in NewPayouts :
        /\ Len(rounds) + Len(new) <= MaxRoundsPayouts
        /\ previous_payout_list = <<>> => new /= <<>>
        /\ ProcessPayoutList(new \o previous_payout_list,
                             VOLATILITY_COOLDOWN_MIN_MIN, TRUE)

\* The polling loop from its start: the first list is only remembered, every
\* later one is the list before it with the new payouts in front.
SpecPayouts == Init /\ [][NextPayouts]_vars

TypeOK ==
    /\ rounds \in Seq(Mults \cup MultsResolve \cup MultsTrigger \cup MultsStreak
                     \cup MultsVolatility \cup MultsInterrupt
                     \cup MultsRace \cup MultsTickRace \cup MultsDelivery
                     \cup MultsMissing \cup MultsFault \cup MultsRedeliver
                     \cup MultsPayouts)
    /\ Len(signals) <= Len(rounds)
    /\ today \in Days
    /\ tod \in {"day", "late", "early"}

\* ---- properties ---------------------------------------------------------------
\* Vocabulary of the properties, read off the collections themselves.
OpenSignals ==
    {i \in 1..Len(signals) : signals[i].status \in {"active", "gale1", "gale2"}}

RoundStored == Len(rounds') = Len(rounds) + 1

SignalCreated == Len(signals') = Len(signals) + 1

NewestAllUnder(rnds, n, limit) ==
    /\ Len(rnds) >= n
    /\ \A k \in (Len(rnds) - n + 1)..Len(rnds) : rnds[k] < limit

C2_ResolutionTable ==
    [][RoundStored =>
        \A i \in OpenSignals :
            LET dd == signals[i].gale_depth
                tt == signals[i].target
                m == rounds'[Len(rounds')]
            IN  /\ m >= tt => signals'[i].status = "won"
                /\ (m < tt /\ dd < MAX_GALE) =>
                      /\ signals'[i].gale_depth = dd + 1
                      /\ signals'[i].status = IF dd + 1 = 1 THEN "gale1" ELSE "gale2"
                /\ (m < tt /\ dd = MAX_GALE) => signals'[i].status = "lost"]_vars

\* target 1.8 and rounds 1.5, 1.2, 1.9: won at depth 2
C2_Witness ==
    /\ rounds = SeedRounds \o <<150, 120, 190>>
    /\ signals[1].target = 180
    /\ signals[1].status = "won"
    /\ signals[1].gale_depth = 2
    /\ signals[1].result_round_id = Len(rounds)

\* C3: storing a round creates a signal exactly when no signal is non-terminal,
\* the post-loss cooldown is not active, no volatility cooldown is active or
\* entered by this round, the session is open, the newest SEQUENCE_LENGTH
\* rounds are all below THRESHOLD and pre_signal_sent is set.
C3_Conditions ==
    /\ OpenSignals = {}
    /\ ~(/\ engine_state.cooldown_until_round_id /= NONE
         /\ Len(rounds') < engine_state.cooldown_until_round_id)
    /\ ~(engine_state.volatility_cooldown_until > 0)
    /\ ~NewestAllUnder(rounds', 3, VOLATILITY_THRESHOLD)
    /\ ~(OPERATING_HOURS_ONLY /\ tod \in {"late", "early"}
         /\ engine_state.session_closed /= "false")
    /\ NewestAllUnder(rounds', SEQUENCE_LENGTH, THRESHOLD)
    /\ engine_state.pre_signal_sent

C4_PreSignalInSameRun ==
    \A i \in 1..Len(signals) :
        signals[i].trigger_round_id = Len(rounds) =>
            /\ pre_signal_round > 0
            /\ pre_signal_round < signals[i].trigger_round_id
            /\ \A k \in pre_signal_round..Len(rounds) : rounds[k] < THRESHOLD

\* C5: while a signal is non-terminal, every stored round applies one
\* resolution step to it (won, lost, or one gale deeper) and opens no signal,
\* whatever the cooldowns and the session say.
C5_ResolutionFirst ==
    [][(RoundStored /\ OpenSignals /= {}) =>
        /\ ~SignalCreated
        /\ \A i \in OpenSignals :
              \/ /\ signals'[i].status \in {"won", "lost"}
                 /\ signals'[i].result_round_id = Len(rounds')
              \/ /\ signals'[i].status \in {"gale1", "gale2"}
                 /\ signals'[i].gale_depth = signals[i].gale_depth + 1]_vars

\* a round has just resolved or escalated the signal outside operating hours
C5_Witness ==
    /\ tod = "late"
    /\ engine_state.session_closed /= "false"
    /\ Kinds(sent) \cap {"gale", "win"} /= {}

\* round on which the most recent loss was recorded, NONE when there is none
LastLossRound(sigs) ==
    LET lost == {i \in 1..Len(sigs) : sigs[i].status = "lost"}
    IN  IF lost = {} THEN NONE
        ELSE sigs[CHOOSE i \in lost : \A j \in lost : j <= i].result_round_id

\* C6: after a loss on round L, in_cooldown() is true exactly while the latest
\* stored round id is below L + COOLDOWN_ROUNDS; a round processed while it is
\* true creates no signal and sends no pre-signal.
C6_CooldownWindow ==
    [][RoundStored =>
        LET L == LastLossRound(signals')
        IN  /\ InCooldown(engine_state', rounds') <=>
                  (L /= NONE /\ Len(rounds') < L + COOLDOWN_ROUNDS)
            /\ InCooldown(engine_state, rounds') =>
                  /\ ~SignalCreated
                  /\ "pre_signal" \notin Kinds(sent')]_vars

\* the second round after a loss has been stored and the cooldown is still on
C6_Witness ==
    /\ LastLossRound(signals) /= NONE
    /\ Len(rounds) = LastLossRound(signals) + COOLDOWN_ROUNDS - 1
    /\ InCooldown(engine_state, rounds)

\* C7 as stated: on each of the rounds L+1, L+2, L+3 that follow a loss on
\* round L the post-loss cooldown is still in force.
C7_ThreeRoundsBlocked ==
    LET L == LastLossRound(signals)
    IN  (L /= NONE /\ Len(rounds) \in (L + 1)..(L + COOLDOWN_ROUNDS)) =>
            InCooldown(engine_state, rounds)

\* C7, amended: the cooldown gate stops the rounds L+1 .. L+COOLDOWN_ROUNDS-1;
\* on round L+COOLDOWN_ROUNDS in_cooldown() is false and the round is
\* processed past the gate, yet it creates no signal, so that the first
\* round able to create one is L+COOLDOWN_ROUNDS+1.
C7_CooldownSpan ==
    [][(RoundStored /\ LastLossRound(signals) /= NONE /\ OpenSignals = {}) =>
        LET L == LastLossRound(signals)
            n == Len(rounds')
        IN  /\ n \in (L + 1)..(L + COOLDOWN_ROUNDS - 1) =>
                  /\ InCooldown(engine_state, rounds')
                  /\ ~SignalCreated
                  /\ "pre_signal" \notin Kinds(sent')
            /\ n = L + COOLDOWN_ROUNDS =>
                  /\ ~InCooldown(engine_state, rounds')
                  /\ ~SignalCreated]_vars

\* a signal opened on round L+4, its pre-signal sent on round L+3
C7_Witness ==
    /\ LastLossRound(signals) /= NONE
    /\ pre_signal_round = LastLossRound(signals) + COOLDOWN_ROUNDS
    /\ \E j \in OpenSignals :
          signals[j].trigger_round_id = LastLossRound(signals) + COOLDOWN_ROUNDS + 1

\* C8: with no open signal, no cooldown and the session open, check_trigger
\* on the stored rounds is true exactly when there are at least
\* SEQUENCE_LENGTH rounds and the newest SEQUENCE_LENGTH are all below
\* THRESHOLD.
C8_TriggerIffNewestUnder ==
    [][(/\ RoundStored
        /\ OpenSignals = {}
        /\ ~(/\ engine_state.cooldown_until_round_id /= NONE
             /\ Len(rounds') < engine_state.cooldown_until_round_id)
        /\ ~(engine_state.volatility_cooldown_until > 0)
        /\ ~(OPERATING_HOURS_ONLY /\ tod \in {"late", "early"}
             /\ engine_state.session_closed /= "false")) =>
        (CheckTrigger(World, rounds', GetRecentRounds(rounds', 8),
                      OPERATING_HOURS_ONLY, tod)
            <=> NewestAllUnder(rounds', SEQUENCE_LENGTH, THRESHOLD))]_vars

\* 2.5, 1.1, 1.3, 1.4: the trigger fired on the fourth round, not the third
C8_Witness ==
    /\ rounds = <<250, 110, 130, 140>>
    /\ pre_signal_round = 3
    /\ Len(signals) = 1
    /\ signals[1].trigger_round_id = 4

\* number of consecutive rounds below THRESHOLD counted from the newest
RunUnder(rnds) ==
    Cardinality({n \in 1..Len(rnds) : NewestAllUnder(rnds, n, THRESHOLD)})

MonitoringGated ==
    \/ OpenSignals /= {}
    \/ /\ engine_state.cooldown_until_round_id /= NONE
       /\ Len(rounds) < engine_state.cooldown_until_round_id
    \/ engine_state.volatility_cooldown_until > 0

\* C9 as stated: with exactly 2 sub-threshold rounds the newest, the
\* pattern-monitoring query returns (count = 2, remaining = 1).
C9_TwoOfThreeReported ==
    (~MonitoringGated /\ Len(rounds) >= SEQUENCE_LENGTH /\ RunUnder(rounds) = 2) =>
        GetPatternMonitoringData(signals, engine_state, rounds) =
            [some |-> TRUE, count |-> 2, remaining |-> 1]

\* C9, amended: the pattern-monitoring job reports only from SEQUENCE_LENGTH
\* consecutive sub-threshold rounds on (counted over the newest 10), and then
\* reports (count, remaining = 0); with fewer, 2 included, the query returns
\* nothing and no message goes out.
C9_MonitoringFromThree ==
    [][(\E ok \in BOOLEAN : JobPatternMonitoring(ok)) =>
        LET c == Min(10, RunUnder(rounds))
        IN  IF ~MonitoringGated /\ c >= SEQUENCE_LENGTH
            THEN sent' = <<[kind |-> "pattern_monitoring", arg |-> <<c, 0>>]>>
            ELSE sent' = <<>>]_vars

\* the job has just reported a run of four rounds
C9_Witness ==
    /\ Len(sent) = 1
    /\ sent[1].kind = "pattern_monitoring"
    /\ sent[1].arg = <<4, 0>>

SignalWon == \E i \in OpenSignals : signals'[i].status = "won"

SignalEscalated ==
    \E i \in OpenSignals : signals'[i].gale_depth = signals[i].gale_depth + 1

\* C10 as stated: today_wins changes only at the resolution that marks the
\* signal won, where it grows by 1.
C10_TodayWinsOnlyOnWon ==
    [][RoundStored =>
        (daily_stats'[today].today_wins /= daily_stats[today].today_wins =>
            /\ SignalWon
            /\ daily_stats'[today].today_wins = daily_stats[today].today_wins + 1)]_vars

\* C10, amended: it is the day's wins counter that grows, by exactly 1, at the
\* resolution that marks the signal won and at no other step; creation and
\* gale escalation leave wins unchanged.  today_wins is re-derived at creation
\* as max(0, signals_sent - today_losses) and untouched by a gale or a win.
C10_WinsOnlyOnWon ==
    [][RoundStored =>
        LET row == daily_stats[today]
            new == daily_stats'[today]
        IN  /\ SignalWon => (new.wins = row.wins + 1 /\ new.today_wins = row.today_wins)
            /\ new.wins > row.wins => SignalWon
            /\ SignalCreated =>
                  /\ new.wins = row.wins
                  /\ new.signals_sent = row.signals_sent + 1
                  /\ new.today_wins = Max(0, new.signals_sent - row.today_losses)
            /\ SignalEscalated => new = row]_vars

\* a signal has just been won: wins and today_wins both read 1
C10_Witness ==
    /\ "win" \in Kinds(sent)
    /\ daily_stats[today].wins = 1
    /\ daily_stats[today].today_wins = 1

\* Length of the winning streak the store holds: the resolved signals from the
\* newest back to the first one that is not won.
StreakInStore(sigs) ==
    LET lost == {i \in 1..Len(sigs) : sigs[i].status = "lost"}
    IN  Cardinality({i \in 1..Len(sigs) :
            /\ sigs[i].status = "won"
            /\ \A j \in lost : sigs[j].resolved_at < sigs[i].resolved_at})

CelebrationsSent(msgs) == {i \in 1..Len(msgs) : msgs[i].kind = "streak_celebration"}

C12_NoMilestoneTwice ==
    [][RoundStored =>
        \A i \in CelebrationsSent(sent') : sent'[i].arg[1] \notin celebrated]_vars

\* the volatility cooldown is running: the clock is before its end
VolatilityActive(st) ==
    st.volatility_cooldown_until /= -1 /\ st.volatility_cooldown_until > 0

\* C13: a round stored with no signal open and no volatility cooldown running,
\* whose newest 3 rounds are all under 1.20, starts a volatility cooldown: the
\* persisted duration d is within 5..8 minutes, the cooldown starts now and
\* ends d minutes from now (until = started_at + d), midpoint_sent is false,
\* and no signal is created on that round.
C13_VolatilityCooldownEntered ==
    [][(/\ RoundStored
        /\ OpenSignals = {}
        /\ ~VolatilityActive(engine_state)
        /\ NewestAllUnder(rounds', 3, VOLATILITY_THRESHOLD)) =>
        LET st == engine_state'
            d == st.volatility_cooldown_duration_min
        IN  /\ VOLATILITY_COOLDOWN_MIN_MIN <= d
            /\ d <= VOLATILITY_COOLDOWN_MAX_MIN
            /\ st.volatility_cooldown_started_at = 0
            /\ st.volatility_cooldown_until = d
            /\ st.volatility_cooldown_midpoint_sent = FALSE
            /\ ~SignalCreated]_vars

\* a second cooldown, of 7 minutes, has just been entered on round 4 after the
\* first one ran out
C13_Witness ==
    /\ Len(rounds) = 4
    /\ "cooldown_mode" \in Kinds(sent)
    /\ engine_state.last_keep_alive_variant = -1
    /\ ticks = 1
    /\ engine_state.volatility_cooldown_duration_min = 7
    /\ engine_state.volatility_cooldown_until = 7
    /\ ~engine_state.volatility_cooldown_midpoint_sent

KeepAlivesSent(msgs) == {i \in 1..Len(msgs) : msgs[i].kind = "keep_alive"}

\* The rotating keep-alive is the one that moves last_keep_alive_variant on;
\* any other keep-alive message of a step is the midpoint notification.
OrdinaryKeepAliveSent ==
    engine_state'.last_keep_alive_variant /= engine_state.last_keep_alive_variant

MidpointsSent ==
    Cardinality(KeepAlivesSent(sent')) - (IF OrdinaryKeepAliveSent THEN 1 ELSE 0)

KeepAliveTick == \E variant \in 0..2, ok \in BOOLEAN : JobKeepAlive(variant, ok)

\* now >= started_at + duration / 2
PastMidpoint(st) ==
    /\ st.volatility_cooldown_started_at /= -1
    /\ 2 * st.volatility_cooldown_started_at >= st.volatility_cooldown_duration_min

\* C14: per volatility cooldown window the midpoint notification goes out
\* once: a step sends at most one, only on a keep-alive tick that sees the
\* clock at or past started_at + duration/2 with none sent yet for the window;
\* the first such tick sends it; once sent, no tick or round sends another,
\* and the mark is dropped only by a round that opens a new window.
C14_MidpointOnce ==
    [][/\ MidpointsSent \in {0, 1}
       /\ MidpointsSent = 1 =>
             /\ KeepAliveTick
             /\ PastMidpoint(engine_state)
             /\ ~engine_state.volatility_cooldown_midpoint_sent
             /\ engine_state'.volatility_cooldown_midpoint_sent
       /\ (/\ KeepAliveTick
           /\ PastMidpoint(engine_state)
           /\ ~engine_state.volatility_cooldown_midpoint_sent) => MidpointsSent = 1
       /\ engine_state.volatility_cooldown_midpoint_sent =>
             /\ MidpointsSent = 0
             /\ \/ engine_state'.volatility_cooldown_midpoint_sent
                \/ /\ RoundStored
                   /\ "cooldown_mode" \in Kinds(sent')
                   /\ engine_state'.volatility_cooldown_started_at = 0]_vars

\* a minute after the midpoint notification of an 8-minute window went out:
\* the window is still running and the mark is set
C14_Witness ==
    /\ engine_state.volatility_cooldown_midpoint_sent
    /\ engine_state.volatility_cooldown_duration_min = 8
    /\ engine_state.volatility_cooldown_started_at = 5
    /\ engine_state.volatility_cooldown_until = 3
    /\ engine_state.last_message_at = 1
    /\ sent = <<>>

\* C15: while a volatility cooldown is running (clock before
\* volatility_cooldown_until) a round creates no signal and sends no
\* pre-signal, the pattern-monitoring query returns None and nothing is
\* reported, and a keep-alive tick sends no rotating keep-alive.
C15_QuietDuringVolatilityCooldown ==
    [][VolatilityActive(engine_state) =>
        /\ RoundStored => (~SignalCreated /\ Kinds(sent') \cap {"signal", "pre_signal"} = {})
        /\ ~GetPatternMonitoringData(signals, engine_state, rounds).some
        /\ "pattern_monitoring" \notin Kinds(sent')
        /\ ~OrdinaryKeepAliveSent
        /\ Cardinality(KeepAlivesSent(sent')) <= 1
        /\ (KeepAlivesSent(sent') /= {} =>
               /\ ~engine_state.volatility_cooldown_midpoint_sent
               /\ engine_state'.volatility_cooldown_midpoint_sent)]_vars

\* a cooldown is running, the channel has been silent for 5 minutes, three
\* rounds under 2.0 are the newest and the pre-signal of the run is pending
C15_Witness ==
    /\ VolatilityActive(engine_state)
    /\ engine_state.last_message_at = 5
    /\ engine_state.volatility_cooldown_midpoint_sent
    /\ engine_state.pre_signal_sent
    /\ Len(rounds) = 5
    /\ NewestAllUnder(rounds, 3, THRESHOLD)

\* C16: in every reachable state the current hour bucket holds at most
\* MAX_INTERRUPTS_PER_HOUR (5) interrupts, and they are at most 30% of
\* interrupts + confirmed: 10 * interrupts <= 3 * (interrupts + confirmed).
C16_InterruptCaps ==
    engine_state.interrupt_stats.hour_key = "current" =>
        /\ engine_state.interrupt_stats.interrupts <= MAX_INTERRUPTS_PER_HOUR
        /\ 10 * engine_state.interrupt_stats.interrupts <=
               3 * (engine_state.interrupt_stats.interrupts
                    + engine_state.interrupt_stats.confirmed)

\* A round reaches the interrupted-run branch: no signal open, no cooldown, the
\* session open, a pre-signal pending and the round above the threshold.
RunInterrupted ==
    /\ RoundStored
    /\ OpenSignals = {}
    /\ ~VolatilityActive(engine_state)
    /\ ~(/\ engine_state.cooldown_until_round_id /= -1
         /\ Len(rounds') < engine_state.cooldown_until_round_id)
    /\ ~(OPERATING_HOURS_ONLY /\ tod \in {"late", "early"}
         /\ engine_state.session_closed /= "false")
    /\ engine_state.pre_signal_sent
    /\ rounds'[Len(rounds')] > THRESHOLD

\* The interrupt governance on the counters of the current hour.
GovernancePermits ==
    LET cur == engine_state.interrupt_stats.hour_key = "current"
        i == IF cur THEN engine_state.interrupt_stats.interrupts ELSE 0
        c == IF cur THEN engine_state.interrupt_stats.confirmed ELSE 0
    IN  /\ i < 5
        /\ (i + c = 0 \/ 100 * i < 30 * (i + c))

CancelPosted ==
    /\ Cardinality({i \in 1..Len(sent') : sent'[i].kind = "signal_cancelled"}) = 1
    /\ "delete" \notin Kinds(sent')
    /\ engine_state'.interrupt_stats.hour_key = "current"
    /\ engine_state'.interrupt_stats.interrupts =
          1 + (IF engine_state.interrupt_stats.hour_key = "current"
               THEN engine_state.interrupt_stats.interrupts ELSE 0)
    /\ engine_state'.last_signal_interrupted_at = 0

CancelSuppressed ==
    /\ "signal_cancelled" \notin Kinds(sent')
    /\ engine_state'.interrupt_stats = engine_state.interrupt_stats
    /\ engine_state'.last_signal_interrupted_at = engine_state.last_signal_interrupted_at

PreSignalDeleted ==
    Cardinality({i \in 1..Len(sent') : sent'[i].kind = "delete"}) = 1

RunCleared ==
    /\ ~engine_state'.pre_signal_sent
    /\ engine_state'.last_pre_signal_message_id = -1
    /\ ~SignalCreated
    /\ "signal" \notin Kinds(sent')

\* C17 as stated: an interrupted run either has its cancellation notice posted
\* and counted, or has the notice suppressed and the pre-signal notification
\* deleted; either way the run's flag and reference are cleared and no signal
\* is created.
C17_CancelOrDelete ==
    [][RunInterrupted =>
        /\ \/ GovernancePermits /\ CancelPosted
           \/ ~GovernancePermits /\ CancelSuppressed /\ PreSignalDeleted
        /\ RunCleared]_vars

\* C17, amended: when the notice is suppressed the pre-signal notification is
\* deleted if a reference to it is stored; a pre-signal whose send returned no
\* reference leaves none, and then nothing is deleted.
C17_CancelOrDeleteStored ==
    [][RunInterrupted =>
        /\ \/ GovernancePermits /\ CancelPosted
           \/ /\ ~GovernancePermits
              /\ CancelSuppressed
              /\ IF engine_state.last_pre_signal_message_id /= -1
                 THEN PreSignalDeleted
                 ELSE "delete" \notin Kinds(sent')
        /\ RunCleared]_vars

\* the second broken run of the hour: its notice was suppressed and the
\* pre-signal notification deleted
C17_Witness ==
    /\ Len(rounds) = 6
    /\ rounds[6] = 250
    /\ Kinds(sent) = {"delete"}
    /\ engine_state.interrupt_stats = [hour_key |-> "current", interrupts |-> 1, confirmed |-> 0]
    /\ ~engine_state.pre_signal_sent
    /\ engine_state.last_pre_signal_message_id = -1

\* C18: two on_new_round invocations running concurrently on one store never
\* both insert a signal: no two signals are non-terminal at once.
C18_OneSignalUnderRace ==
    \A i \in OpenSignals : \A j \in OpenSignals : i = j

Visible(w) ==
    [sig |-> [i \in 1..Len(w.sig) |-> [w.sig[i] EXCEPT !.telegram_message_id = NONE]],
     ds |-> w.ds,
     st |-> [w.st EXCEPT !.last_message_at = NONE,
                         !.last_pre_signal_message_id = NONE],
     cs |-> w.cs,
     lc |-> w.lc]

\* The worlds that differ from w only by the outcome of earlier deliveries
Twins(w) ==
    {[w EXCEPT !.sig = [i \in 1..Len(w.sig) |->
                            [w.sig[i] EXCEPT !.telegram_message_id =
                                IF i = Len(w.sig) THEN id ELSE @]],
               !.st.last_message_at = at,
               !.st.last_pre_signal_message_id = pre] :
        id \in {NONE, MSG_REF},
        at \in {NONE, 0},
        pre \in {NONE, MSG_REF}}

\* the cooldown length drawn by the on_new_round of this step, if it drew one
DurationDrawn ==
    IF engine_state'.volatility_cooldown_duration_min = NONE
    THEN VOLATILITY_COOLDOWN_MIN_MIN
    ELSE engine_state'.volatility_cooldown_duration_min

\* C20: for the same round and clock, the signals' statuses and gale depths,
\* the daily counters, the cooldown fields, pre_signal_sent and the hourly
\* interrupt counters after on_new_round do not depend on whether this or any
\* earlier notification was delivered: started from any store that differs
\* only by what deliveries leave behind, with this delivery succeeding or
\* failing, on_new_round ends in the same state up to those leftovers.
C20_SendOutcomeIrrelevant ==
    [][RoundStored =>
          \A v \in Twins(World), ok \in BOOLEAN :
              Visible(OnNewRound(v, rounds',
                                 [id |-> Len(rounds'), multiplier |-> rounds'[Len(rounds')]],
                                 today, tod, OPERATING_HOURS_ONLY, DurationDrawn, ok))
                  = Visible(World')]_vars

\* C20 witness: a run pre-signalled, its signal created, escalated twice and
\* lost with the post-loss cooldown started, no notification ever delivered.
C20_Witness ==
    /\ engine_state.last_message_at = NONE
    /\ Len(signals) = 1
    /\ signals[1].status = STATUS_LOST
    /\ signals[1].telegram_message_id = NONE
    /\ engine_state.cooldown_until_round_id /= NONE
    /\ engine_state.interrupt_stats.confirmed = 1

\* C21: on_new_round for a round without a multiplier changes no signal, no
\* daily_stats row and no engine_state field, with a signal active or not.
C21_MissingMultiplierInert ==
    [][RoundStored /\ rounds'[Len(rounds')] = NONE =>
          /\ signals' = signals
          /\ daily_stats' = daily_stats
          /\ engine_state' = engine_state]_vars

\* The reads of on_new_round that fail in some invocation
SomeFault == Faults \ {NoFault}

\* C22: an invocation of on_new_round during which a store read fails (the
\* active-signal lookup, the engine-state lookup or the latest-round lookup)
\* creates no signal, and no second non-terminal signal ever appears.
C22_NoSignalOnFailedRead ==
    [][RoundStored =>
          /\ \A f \in SomeFault :
                Len(OnNewRoundFaulty(World, rounds',
                        [id |-> Len(rounds'), multiplier |-> rounds'[Len(rounds')]],
                        today, tod, OPERATING_HOURS_ONLY, VOLATILITY_COOLDOWN_MIN_MIN,
                        TRUE, f).sig) = Len(signals)
          /\ Cardinality({i \in 1..Len(signals') : IsNonTerminal(signals'[i])}) <= 1]_vars

\* the status and gale depth of every signal
Outcomes(sigs) ==
    [i \in 1..Len(sigs) |-> [status |-> sigs[i].status, gale_depth |-> sigs[i].gale_depth]]

\* the counters of every daily_stats row
Counters(ds) ==
    [d \in DOMAIN ds |-> [wins |-> ds[d].wins, losses |-> ds[d].losses,
                          signals_sent |-> ds[d].signals_sent,
                          today_wins |-> ds[d].today_wins,
                          today_losses |-> ds[d].today_losses]]

\* C23: on_new_round delivered again for a round already processed leaves the
\* daily counters and every signal's status and gale depth as the first
\* delivery left them.
C23_RedeliveryKeepsOutcomes ==
    [][rounds' = rounds =>
          /\ Counters(daily_stats') = Counters(daily_stats)
          /\ Outcomes(signals') = Outcomes(signals)]_vars

\* C24: with OPERATING_HOURS_ONLY enabled no signal is created while the BRT
\* clock is in [23:00, 08:00).  The open event the code has is the daily
\* opener, which the scheduler runs at 08:00, outside that span: no night is
\* re-opened by one.
C24_NoSignalAtNight ==
    [][SignalCreated => tod = "day"]_vars

\* C25: in the daily_stats row of the current day,
\* today_wins = max(0, signals_sent - today_losses).
C25_TodayWinsDerived ==
    daily_stats[today].today_wins
        = Max(0, daily_stats[today].signals_sent - daily_stats[today].today_losses)

\* C25 witness: a signal sent on day 1 was lost after midnight, so that the row
\* of day 2 holds a loss and no signal sent.
C25_Witness ==
    /\ today = 2
    /\ daily_stats[1].signals_sent = 1
    /\ daily_stats[2].present
    /\ daily_stats[2].signals_sent = 0
    /\ daily_stats[2].today_losses = 1
    /\ daily_stats[2].today_wins = 0

SignalLost == \E i \in OpenSignals : signals'[i].status = "lost"

\* the result notifications among the messages of the step
ResultsSent(msgs) == {i \in 1..Len(msgs) : msgs[i].kind \in {"win", "recovery", "loss"}}

\* C26: a resolution to won or lost dispatches one result notification, and
\* the wins and losses it reports are those of the day with the signal being
\* resolved counted; where the streak is restored from the store (the process
\* having no streak of its own), it counts the signal being resolved, among
\* the newest DB_STREAK_SCAN_LIMIT the query reads, so its status is persisted
\* by then.
C26_CountsBeforeNotification ==
    [][RoundStored /\ (SignalWon \/ SignalLost) =>
          /\ Cardinality(ResultsSent(sent')) = 1
          /\ \A i \in ResultsSent(sent') :
                sent'[i].arg = <<daily_stats[today].wins + (IF SignalWon THEN 1 ELSE 0),
                                 daily_stats[today].losses + (IF SignalLost THEN 1 ELSE 0)>>
          /\ (SignalWon /\ current_streak = 0 =>
                 current_streak' = Min(DB_STREAK_SCAN_LIMIT, StreakInStore(signals')))]_vars

\* C26 witness: a loss reported as the day's first, after wins of the same day
C26_Witness ==
    /\ Len(sent) > 0
    /\ sent[1].kind = "loss"
    /\ sent[1].arg[2] = 1
    /\ sent[1].arg[1] >= 1
    /\ \E i \in 1..Len(signals) : signals[i].status = "lost"

\* C27: a gale escalation (depth d -> d + 1, d < MAX_GALE) changes the
\* signal's status and gale_depth and nothing else in the signals and the
\* daily_stats collections; in the engine state it leaves every field but
\* last_message_at (stamped by the delivered escalation message) as it was,
\* cooldown_until_round_id and the persisted streak among them.
C27_GaleFrame ==
    [][RoundStored /\ SignalEscalated =>
          \E i \in OpenSignals :
              /\ signals[i].gale_depth < MAX_GALE
              /\ signals' = [signals EXCEPT
                    ![i].gale_depth = signals[i].gale_depth + 1,
                    ![i].status = IF signals[i].gale_depth = 0 THEN STATUS_GALE1
                                  ELSE STATUS_GALE2]
              /\ daily_stats' = daily_stats
              /\ engine_state' = [engine_state EXCEPT
                    !.last_message_at = engine_state'.last_message_at]
              /\ current_streak' = current_streak]_vars

\* C27 witness: the signal has been escalated to gale 2 on the newest round
C27_Witness ==
    /\ Len(signals) = 1
    /\ signals[1].status = STATUS_GALE2
    /\ signals[1].gale_depth = 2
    /\ signals[1].result_round_id = NONE
    /\ Len(sent) = 1
    /\ sent[1] = [kind |-> "gale", arg |-> <<2>>]

\* A round at or above the threshold arrives while a pre-signal is pending: no
\* signal open, no cooldown, the session open.
RunBroken ==
    /\ RoundStored
    /\ OpenSignals = {}
    /\ ~VolatilityActive(engine_state)
    /\ ~(/\ engine_state.cooldown_until_round_id /= -1
         /\ Len(rounds') < engine_state.cooldown_until_round_id)
    /\ ~(OPERATING_HOURS_ONLY /\ tod \in {"late", "early"}
         /\ engine_state.session_closed /= "false")
    /\ engine_state.pre_signal_sent
    /\ rounds'[Len(rounds')] >= THRESHOLD

\* C28: a round at or above THRESHOLD (exactly THRESHOLD included) that breaks
\* a run whose pre-signal is pending resolves the run as interrupted: the
\* cancellation notice is posted, or the pre-signal notification is retracted
\* (nothing being there to retract when no reference to it was stored).
C28_BreakInterrupts ==
    [][RunBroken =>
          \/ CancelPosted
          \/ PreSignalDeleted
          \/ (~GovernancePermits /\ engine_state.last_pre_signal_message_id = -1)]_vars

\* C29: after a pending pre-signal is cancelled because the pattern broke, by a
\* posted notice or by retracting the pre-signal notification, no pre-signal
\* notification is sent during the following INTERRUPTED_COOLDOWN_MINUTES.
C29_QuietAfterCancel ==
    [][RoundStored /\ "pre_signal" \in Kinds(sent') =>
          \/ cancelled_at = NONE
          \/ cancelled_at >= INTERRUPTED_COOLDOWN_MINUTES]_vars

\* C30: once on_new_round has completed, fewer than two consecutive
\* sub-threshold rounds from the newest mean that pre_signal_sent is false and
\* no pre-signal notification reference is stored, in every reachable state:
\* during a volatility cooldown, a post-loss cooldown and a closed session too.
C30_ShortRunClearsPreSignal ==
    ConsecutiveUnderThreshold(GetRecentRounds(rounds, 8)) < 2 =>
        /\ ~engine_state.pre_signal_sent
        /\ engine_state.last_pre_signal_message_id = NONE

\* The pre-signal is held back by the interrupted cooldown or by the minimum
\* interval between pre-signals.
PreSignalThrottled(st) ==
    \/ IsInInterruptedCooldown(st)
    \/ /\ st.last_pre_signal_at /= NONE
       /\ st.last_pre_signal_at * 60 < PRE_SIGNAL_MIN_INTERVAL_SEC

\* A stored round finds no pre-signal sent for the run it belongs to: it is the
\* second round of the run and the pre-signal is held back, or a later one.
RunWithoutPreSignal ==
    LET consecutive == ConsecutiveUnderThreshold(GetRecentRounds(rounds', 8))
    IN  /\ RoundStored
        /\ ~engine_state.pre_signal_sent
        /\ \/ consecutive = 2 /\ PreSignalThrottled(engine_state)
           \/ /\ consecutive >= 3
              /\ ConsecutiveUnderThreshold(GetRecentRounds(rounds, 8)) >= 2

\* C31: a run whose pre-signal was suppressed at its second round (interrupted
\* cooldown or minimum interval) stays without one: that round and every later
\* round of the run send no pre-signal, create no signal and leave
\* pre_signal_sent false, however long the run continues.
C31_SuppressedRunDropped ==
    [][RunWithoutPreSignal =>
          /\ "pre_signal" \notin Kinds(sent')
          /\ ~SignalCreated
          /\ ~engine_state'.pre_signal_sent]_vars

\* the pre-signal of the run 1.80, 1.80, 1.80, 1.80 was held back by the
\* interrupted cooldown on its second round; two rounds later nothing was sent
C31_Witness ==
    /\ rounds = <<180, 180, 250, 180, 180, 180, 180>>
    /\ ticks = 0
    /\ signals = <<>>
    /\ pre_signal_round = 2
    /\ ~engine_state.pre_signal_sent

\* C32: after every win or recovery the persisted consecutive_wins is the
\* number of won signals at the tail of the resolved history (newest first, up
\* to the first lost one), and after every loss it is 0, whether or not the
\* process was restarted (in-memory streak back to 0) between any two rounds.
C32_PersistedStreakIsTail ==
    [][/\ (RoundStored /\ SignalWon) =>
              engine_state'.consecutive_wins = StreakInStore(signals')
       /\ (RoundStored /\ SignalLost) =>
              engine_state'.consecutive_wins = 0]_vars

\* The step resets the day's display counters: a loss that would have brought
\* losses to 2 leaves the row at wins = 0, losses = 1.
DisplayCountersReset ==
    /\ RoundStored
    /\ SignalLost
    /\ daily_stats[today].present
    /\ daily_stats[today].losses = 1
    /\ daily_stats'[today].losses = 1
    /\ daily_stats'[today].wins = 0

\* The two most recently resolved signals are both lost.
LastTwoLost(sigs) ==
    LET resolved == {i \in 1..Len(sigs) : sigs[i].status \in {"won", "lost"}}
        newest == {i \in resolved :
                      Cardinality({j \in resolved :
                          sigs[j].resolved_at > sigs[i].resolved_at}) < 2}
    IN  /\ Cardinality(newest) = 2
        /\ \A i \in newest : sigs[i].status = "lost"

\* C33: the day's display counters are reset (wins = 0, losses = 1) only when
\* the two most recently resolved signals are both lost.
C33_ResetOnlyAfterTwoLostInARow ==
    [][DisplayCountersReset => LastTwoLost(signals')]_vars

\* The step dispatches the rotating keep-alive of a check_and_send_keep_alive
\* invocation.
KeepAliveDispatched ==
    \E p \in Slots :
        /\ inflight[p].op = "keep_alive"
        /\ inflight[p].pc = "ka_send"
        /\ inflight'[p].pc = "ka_write"

\* C34: an ordinary keep-alive is never sent while a non-terminal signal
\* exists or while the post-loss, volatility or interrupted cooldown is active,
\* in every interleaving of the keep-alive tick with a running on_new_round.
C34_KeepAliveRespectsGates ==
    [][KeepAliveDispatched =>
          /\ OpenSignals = {}
          /\ ~InCooldown(engine_state, rounds)
          /\ ~VolatilityActive(engine_state)
          /\ ~IsInInterruptedCooldown(engine_state)]_vars

\* C35: keep-alive messages rotate through the variants 0, 1, 2 and the same
\* variant is never sent twice in a row, ordinary keep-alives and
\* volatility-midpoint keep-alives taken together.
C35_NoVariantTwiceInARow ==
    Len(keep_alives) = 2 => keep_alives[2] /= keep_alives[1]

\* The gale ladder of one signal document: the depth its status stands for.
GaleLadder(signal) ==
    /\ signal.gale_depth \in 0..MAX_GALE
    /\ signal.status = STATUS_ACTIVE => signal.gale_depth = 0
    /\ signal.status = STATUS_GALE1 => signal.gale_depth = 1
    /\ signal.status = STATUS_GALE2 => signal.gale_depth = 2
    /\ signal.status = STATUS_LOST => signal.gale_depth = MAX_GALE

\* C36: every signal has 0 <= gale_depth <= MAX_GALE with active at depth 0,
\* gale1 at depth 1, gale2 at depth 2 and lost at depth MAX_GALE; a new signal
\* starts on the ladder, and no step lowers a signal's depth or raises it by
\* more than 1, the status moving to the gale of the new depth.
C36_GaleLadder ==
    [][/\ \A i \in 1..Len(signals) : GaleLadder(signals[i])
       /\ \A i \in 1..Len(signals') : GaleLadder(signals'[i])
       /\ \A i \in 1..Len(signals) :
             /\ signals'[i].gale_depth \in
                   {signals[i].gale_depth, signals[i].gale_depth + 1}
             /\ signals'[i].gale_depth = signals[i].gale_depth + 1 =>
                   /\ signals[i].status \in {STATUS_ACTIVE, STATUS_GALE1}
                   /\ signals'[i].status \in {STATUS_GALE1, STATUS_GALE2}]_vars

\* A signal lost at the bottom of the ladder beside one on its first gale.
C36_Witness ==
    /\ \E i \in 1..Len(signals) :
          signals[i].status = STATUS_LOST /\ signals[i].gale_depth = MAX_GALE
    /\ \E i \in 1..Len(signals) :
          signals[i].status = STATUS_GALE1 /\ signals[i].gale_depth = 1

\* The list handed to process_payout_list is the remembered list with k
\* payouts put in front of it.
Prepended(k) ==
    /\ previous_payout_list /= <<>>
    /\ Len(payout_list') = Len(previous_payout_list) + k
    /\ SubSeq(payout_list', k + 1, Len(payout_list')) = previous_payout_list

\* C37: when the new payout list is the previous one with k >= 1 payouts put
\* in front, process_payout_list saves exactly k rounds, with the next k
\* integer ids, oldest payout first.
C37_SavesEveryNewPayout ==
    [][\A k \in 1..MaxRoundsPayouts :
          Prepended(k) =>
              /\ Len(rounds') = Len(rounds) + k
              /\ \A j \in 1..k :
                    rounds'[Len(rounds) + j] =
                        ConvertMultiplierToDecimal(payout_list'[k + 1 - j])]_vars

\* Rounds stored since the round that created the signal.
RoundsSince(signal) == Len(rounds) - signal.trigger_round_id

\* C38: a signal is resolved by one of the MAX_GALE + 1 rounds that follow the
\* round that created it, every round carrying a multiplier: while it is open
\* each round since its creation has taken it one gale further and fewer than
\* MAX_GALE + 1 rounds have passed, and once it is won or lost its result round
\* is one of those MAX_GALE + 1 rounds, never the round that created it.
C38_ResolvedWithinThreeRounds ==
    \A i \in 1..Len(signals) :
        /\ signals[i].status \in {STATUS_ACTIVE, STATUS_GALE1, STATUS_GALE2} =>
              /\ RoundsSince(signals[i]) = signals[i].gale_depth
              /\ RoundsSince(signals[i]) <= MAX_GALE
        /\ signals[i].status \in {STATUS_WON, STATUS_LOST} =>
              signals[i].result_round_id \in
                  (signals[i].trigger_round_id + 1)
                      ..(signals[i].trigger_round_id + MAX_GALE + 1)

\* A signal lost on the third round after its creation and one won on the first.
C38_Witness ==
    /\ \E i \in 1..Len(signals) :
          /\ signals[i].status = STATUS_LOST
          /\ signals[i].result_round_id = signals[i].trigger_round_id + MAX_GALE + 1
    /\ \E i \in 1..Len(signals) :
          /\ signals[i].status = STATUS_WON
          /\ signals[i].result_round_id = signals[i].trigger_round_id + 1

\* The fields of a signal that record its result.
Result(signal) ==
    <<signal.status, signal.gale_depth, signal.result_round_id,
      signal.result_multiplier, signal.resolved_at>>

\* C39: won and lost are absorbing.  No step changes the status, gale_depth,
\* result_round_id, result_multiplier or resolved_at of a signal that is won or
\* lost, and the result round of such a signal comes after its trigger round.
C39_TerminalAbsorbing ==
    [][\A i \in 1..Len(signals) :
          signals[i].status \in {STATUS_WON, STATUS_LOST} =>
              /\ Len(signals') >= i
              /\ Result(signals'[i]) = Result(signals[i])
              /\ signals[i].result_round_id > signals[i].trigger_round_id]_vars

\* A lost signal with rounds delivered, a later signal created and the clock
\* advanced since.
C39_Witness ==
    /\ \E i \in 1..Len(signals) :
          /\ signals[i].status = STATUS_LOST
          /\ Len(signals) > i
          /\ Len(rounds) > signals[i].result_round_id + 1
    /\ ticks > 0

====
